---- MODULE Spec2Model ----
(***************************************************************************)
(* Monthly usage aggregation and submission pipeline of                    *)
(* src/src/metering_processor.py (class MeteringProcessor), as a state     *)
(* machine: the durable state blob, one worker walking through            *)
(* process_pending_months / process_month / retry_error_contracts /        *)
(* send_to_clazar, and the billing API as a nondeterministic responder.    *)
(***************************************************************************)
EXTENDS Integers, Sequences, FiniteSets, TLC

\* ------------------------------------------------------------------------
\* Bounds of the model
\* ------------------------------------------------------------------------
\* number of month boundaries the wall clock may cross during a behaviour
MaxTicks == 1
\* number of process kills in a behaviour of the crash specification
MaxCrashes == 1
\* the value at which the counters of the ledger and of the runs of a month
\* stop counting
MaxCount == 2
\* longest list of usage records handed to aggregate_usage_data on its own
MaxRecords == 3
\* largest max_retries handed to send_metering_data on its own
MaxClientRetries == 2
\* number of get_object and put_object calls on the state file that may fail
\* in a behaviour
MaxStoreFailures == 1
\* number of calls of the state operations on their own
MaxOps == 3

\* ------------------------------------------------------------------------
\* Program constants
\* ------------------------------------------------------------------------
\* MAX_MONTHS_PER_RUN default, main_processing
max_months == 12

\* the values MAX_RETRIES takes in the runs of a behaviour (it is read from
\* the environment at every main_processing call)
MaxRetriesChoices == {1, 2}

\* the service triple this worker is configured for, and another service
\* that shares the state blob
SERVICE == <<"Postgres", "PROD", "pt1">>
OTHER_SERVICE == <<"Postgres", "DEV", "pt1">>
Services == {SERVICE, OTHER_SERVICE}

Contracts == {"c1", "c2"}
Dimensions == {"d1", "d2"}

\* wall clock (year, month) at the first run
StartNow == <<2025, 1>>

\* ------------------------------------------------------------------------
\* Text conversions
\* ------------------------------------------------------------------------
DigitChars == <<"0", "1", "2", "3", "4", "5", "6", "7", "8", "9">>

Chr(d) == DigitChars[d + 1]

Ord(c) == CHOOSE d \in 0..9 : DigitChars[d + 1] = c

\* f"{service_name}:{environment_type}:{plan_id}"
get_service_key(service_name, environment_type, plan_id) ==
    <<service_name, ":", environment_type, ":", plan_id>>

\* f"{year:04d}-{month:02d}"
get_month_key(year, month) ==
    <<Chr((year \div 1000) % 10), Chr((year \div 100) % 10),
      Chr((year \div 10) % 10), Chr(year % 10), "-",
      Chr((month \div 10) % 10), Chr(month % 10)>>

RECURSIVE ParseInt(_)
\* int(s) of a string of decimal digits
ParseInt(s) ==
    IF Len(s) = 0 THEN 0
    ELSE 10 * ParseInt(SubSeq(s, 1, Len(s) - 1)) + Ord(s[Len(s)])

\* year, month = map(int, last_processed_str.split('-'))
ParseMonthKey(s) ==
    LET dash == CHOOSE i \in 1..Len(s) : s[i] = "-" /\ \A j \in 1..(i - 1) : s[j] # "-"
    IN <<ParseInt(SubSeq(s, 1, dash - 1)), ParseInt(SubSeq(s, dash + 1, Len(s)))>>

RECURSIVE NatToStr(_)
NatToStr(n) ==
    IF n < 10 THEN <<Chr(n)>> ELSE Append(NatToStr(n \div 10), Chr(n % 10))

\* str(n) of an integer
IntToStr(n) == IF n < 0 THEN <<"-">> \o NatToStr(-n) ELSE NatToStr(n)

\* ------------------------------------------------------------------------
\* Calendar
\* ------------------------------------------------------------------------
\* (y1, m1) >= (y2, m2) on Python tuples
MonthGE(a, b) == a[1] > b[1] \/ (a[1] = b[1] /\ a[2] >= b[2])

\* the month after (year, month) on the calendar
ClockSucc(ym) == IF ym[2] = 12 THEN <<ym[1] + 1, 1>> ELSE <<ym[1], ym[2] + 1>>

\* NextMonthOf without the December case
NextMonthOf_NoRollover(ym) == <<ym[1], ym[2] + 1>>

\* the month after (year, month), as computed in get_next_month_to_process
NextMonthOf(ym) == IF ym[2] = 12 THEN <<ym[1] + 1, 1>> ELSE <<ym[1], ym[2] + 1>>

PrevMonthOf(ym) == IF ym[2] = 1 THEN <<ym[1] - 1, 12>> ELSE <<ym[1], ym[2] - 1>>

IsLeap(y) == (y % 4 = 0 /\ y % 100 # 0) \/ y % 400 = 0

\* calendar.monthrange(year, month)[1]
LastDay(y, m) ==
    IF m = 2 THEN (IF IsLeap(y) THEN 29 ELSE 28)
    ELSE IF m \in {4, 6, 9, 11} THEN 30 ELSE 31

\* current_date.replace(day=1) - timedelta(days=32), then .replace(day=1):
\* 32 days before the first of a month is a day of the month two months back
FirstRunMonth(ym) ==
    LET prev == PrevMonthOf(ym)
        back == 32 - LastDay(prev[1], prev[2])
        pp == PrevMonthOf(prev)
    IN IF back <= 0 THEN prev
       ELSE IF back <= LastDay(pp[1], pp[2]) THEN pp ELSE PrevMonthOf(pp)

\* ------------------------------------------------------------------------
\* Dictionaries
\* ------------------------------------------------------------------------
EmptyDict == <<>>

DictPut(d, k, v) == [x \in (DOMAIN d) \cup {k} |-> IF x = k THEN v ELSE d[x]]

DictDel(d, k) == [x \in (DOMAIN d) \ {k} |-> d[x]]

SeqRange(s) == {s[i] : i \in 1..Len(s)}

\* ------------------------------------------------------------------------
\* The state blob and the operations on it.  The blob is a Python dict
\* service_key -> service dict; a service dict has the optional keys
\* "success_contracts" (month_key -> list of contract ids),
\* "error_contracts" (month_key -> list of error entries),
\* "last_processed_month" (month_key) and "last_updated".  Every operation
\* loads the whole blob, changes it and saves the whole blob; the operators
\* below map the loaded blob to the saved one.  ts is datetime.now().
\* ------------------------------------------------------------------------
\* is_contract_month_processed that looks for the contract under every month
is_contract_month_processed_AnyMonth(st, service_name, environment_type, plan_id, contract_id, year, month) ==
    LET service_key == get_service_key(service_name, environment_type, plan_id)
    IN IF service_key \notin DOMAIN st THEN FALSE
       ELSE \/ /\ "success_contracts" \in DOMAIN st[service_key]
               /\ \E k \in DOMAIN st[service_key]["success_contracts"] :
                     contract_id \in SeqRange(st[service_key]["success_contracts"][k])
            \/ /\ "error_contracts" \in DOMAIN st[service_key]
               /\ \E k \in DOMAIN st[service_key]["error_contracts"] :
                     \E i \in 1..Len(st[service_key]["error_contracts"][k]) :
                        st[service_key]["error_contracts"][k][i].contract_id = contract_id

\* is_contract_month_processed without the look into success_contracts
is_contract_month_processed_ErrorsOnly(st, service_name, environment_type, plan_id, contract_id, year, month) ==
    LET service_key == get_service_key(service_name, environment_type, plan_id)
        month_key == get_month_key(year, month)
    IN IF service_key \notin DOMAIN st THEN FALSE
       ELSE /\ "error_contracts" \in DOMAIN st[service_key]
            /\ month_key \in DOMAIN st[service_key]["error_contracts"]
            /\ \E i \in 1..Len(st[service_key]["error_contracts"][month_key]) :
                  st[service_key]["error_contracts"][month_key][i].contract_id = contract_id

is_contract_month_processed(st, service_name, environment_type, plan_id, contract_id, year, month) ==
    LET service_key == get_service_key(service_name, environment_type, plan_id)
        month_key == get_month_key(year, month)
    IN IF service_key \notin DOMAIN st THEN FALSE
       ELSE IF /\ "success_contracts" \in DOMAIN st[service_key]
               /\ month_key \in DOMAIN st[service_key]["success_contracts"]
               /\ contract_id \in SeqRange(st[service_key]["success_contracts"][month_key])
            THEN TRUE
       ELSE IF /\ "error_contracts" \in DOMAIN st[service_key]
               /\ month_key \in DOMAIN st[service_key]["error_contracts"]
               /\ \E i \in 1..Len(st[service_key]["error_contracts"][month_key]) :
                     st[service_key]["error_contracts"][month_key][i].contract_id = contract_id
            THEN TRUE
       ELSE FALSE

\* the service dict after "if service_key not in state: state[service_key] = {}"
ServiceDict(st, service_key) ==
    IF service_key \in DOMAIN st THEN st[service_key] ELSE EmptyDict

\* the month dict after "if key not in state[service_key]: state[service_key][key] = {}"
SubDict(svc, key) == IF key \in DOMAIN svc THEN svc[key] ELSE EmptyDict

\* mark_contract_month_processed that appends without looking
mark_contract_month_processed_Append(st, service_name, environment_type, plan_id, contract_id, year, month, ts) ==
    LET service_key == get_service_key(service_name, environment_type, plan_id)
        month_key == get_month_key(year, month)
        svc == ServiceDict(st, service_key)
        succ == SubDict(svc, "success_contracts")
        lst == IF month_key \in DOMAIN succ THEN succ[month_key] ELSE <<>>
        svc2 == DictPut(svc, "success_contracts",
                        DictPut(succ, month_key, Append(lst, contract_id)))
    IN DictPut(st, service_key, DictPut(svc2, "last_updated", ts))

mark_contract_month_processed(st, service_name, environment_type, plan_id, contract_id, year, month, ts) ==
    LET service_key == get_service_key(service_name, environment_type, plan_id)
        month_key == get_month_key(year, month)
        svc == ServiceDict(st, service_key)
        succ == SubDict(svc, "success_contracts")
        lst == IF month_key \in DOMAIN succ THEN succ[month_key] ELSE <<>>
        lst2 == IF contract_id \notin SeqRange(lst) THEN Append(lst, contract_id) ELSE lst
        svc2 == DictPut(svc, "success_contracts", DictPut(succ, month_key, lst2))
    IN DictPut(st, service_key, DictPut(svc2, "last_updated", ts))

\* index of the first error entry of the contract in the list, 0 if none
ExistingError(lst, contract_id) ==
    IF \E i \in 1..Len(lst) : lst[i].contract_id = contract_id
    THEN CHOOSE i \in 1..Len(lst) :
            /\ lst[i].contract_id = contract_id
            /\ \A j \in 1..(i - 1) : lst[j].contract_id # contract_id
    ELSE 0

\* mark_contract_month_error that keeps only the latest errors
mark_contract_month_error_Overwrite(st, service_name, environment_type, plan_id, contract_id, year, month, errors, code, message, payload, retry_count, ts) ==
    LET service_key == get_service_key(service_name, environment_type, plan_id)
        month_key == get_month_key(year, month)
        svc == ServiceDict(st, service_key)
        errs == SubDict(svc, "error_contracts")
        lst == IF month_key \in DOMAIN errs THEN errs[month_key] ELSE <<>>
        k == ExistingError(lst, contract_id)
        entry == [contract_id |-> contract_id, errors |-> errors,
                  retry_count |-> retry_count, last_retry_time |-> ts, code |-> code,
                  message |-> message, payload |-> payload]
        lst2 == IF k # 0 THEN [lst EXCEPT ![k] = entry] ELSE Append(lst, entry)
        svc2 == DictPut(svc, "error_contracts", DictPut(errs, month_key, lst2))
    IN DictPut(st, service_key, DictPut(svc2, "last_updated", ts))

\* code, message and payload are non-empty at every call site, so the
\* "if code:", "if message:" and "if payload:" guards are always taken
mark_contract_month_error(st, service_name, environment_type, plan_id, contract_id, year, month, errors, code, message, payload, retry_count, ts) ==
    LET service_key == get_service_key(service_name, environment_type, plan_id)
        month_key == get_month_key(year, month)
        svc == ServiceDict(st, service_key)
        errs == SubDict(svc, "error_contracts")
        lst == IF month_key \in DOMAIN errs THEN errs[month_key] ELSE <<>>
        k == ExistingError(lst, contract_id)
        lst2 == IF k # 0
                THEN [lst EXCEPT ![k] =
                        [contract_id |-> lst[k].contract_id,
                         errors |-> lst[k].errors \o errors,
                         retry_count |-> retry_count,
                         last_retry_time |-> ts,
                         code |-> code,
                         message |-> message,
                         payload |-> payload]]
                ELSE Append(lst, [contract_id |-> contract_id,
                                  errors |-> errors,
                                  retry_count |-> retry_count,
                                  last_retry_time |-> ts,
                                  code |-> code,
                                  message |-> message,
                                  payload |-> payload])
        svc2 == DictPut(svc, "error_contracts", DictPut(errs, month_key, lst2))
    IN DictPut(st, service_key, DictPut(svc2, "last_updated", ts))

RECURSIVE RetryFilter_Inclusive(_, _)
\* RetryFilter with "retry_count <= max_retries"
RetryFilter_Inclusive(lst, max_retries) ==
    IF Len(lst) = 0 THEN <<>>
    ELSE IF Head(lst).retry_count <= max_retries
         THEN <<Head(lst)>> \o RetryFilter_Inclusive(Tail(lst), max_retries)
         ELSE RetryFilter_Inclusive(Tail(lst), max_retries)

RECURSIVE RetryFilter(_, _)
\* the loop "for error_entry in ...: if retry_count < max_retries: append"
RetryFilter(lst, max_retries) ==
    IF Len(lst) = 0 THEN <<>>
    ELSE IF Head(lst).retry_count < max_retries
         THEN <<Head(lst)>> \o RetryFilter(Tail(lst), max_retries)
         ELSE RetryFilter(Tail(lst), max_retries)

get_error_contracts_for_retry(st, service_name, environment_type, plan_id, year, month, max_retries) ==
    LET service_key == get_service_key(service_name, environment_type, plan_id)
        month_key == get_month_key(year, month)
    IN IF \/ service_key \notin DOMAIN st
          \/ "error_contracts" \notin DOMAIN st[service_key]
          \/ month_key \notin DOMAIN st[service_key]["error_contracts"]
       THEN <<>>
       ELSE RetryFilter(st[service_key]["error_contracts"][month_key], max_retries)

RECURSIVE WithoutContract(_, _)
\* [entry for entry in lst if entry.get('contract_id') != contract_id]
WithoutContract(lst, contract_id) ==
    IF Len(lst) = 0 THEN <<>>
    ELSE IF Head(lst).contract_id # contract_id
         THEN <<Head(lst)>> \o WithoutContract(Tail(lst), contract_id)
         ELSE WithoutContract(Tail(lst), contract_id)

\* remove_error_contract that saves the blob with the entry still in it
remove_error_contract_KeepEntry(st, service_name, environment_type, plan_id, contract_id, year, month, ts) ==
    LET service_key == get_service_key(service_name, environment_type, plan_id)
    IN IF service_key \in DOMAIN st
       THEN DictPut(st, service_key, DictPut(st[service_key], "last_updated", ts))
       ELSE st

remove_error_contract(st, service_name, environment_type, plan_id, contract_id, year, month, ts) ==
    LET service_key == get_service_key(service_name, environment_type, plan_id)
        month_key == get_month_key(year, month)
    IN IF /\ service_key \in DOMAIN st
          /\ "error_contracts" \in DOMAIN st[service_key]
          /\ month_key \in DOMAIN st[service_key]["error_contracts"]
       THEN LET svc == st[service_key]
                errs == svc["error_contracts"]
                lst2 == WithoutContract(errs[month_key], contract_id)
                errs2 == IF Len(lst2) = 0 THEN DictDel(errs, month_key)
                         ELSE DictPut(errs, month_key, lst2)
                svc2 == DictPut(svc, "error_contracts", errs2)
            IN DictPut(st, service_key, DictPut(svc2, "last_updated", ts))
       ELSE st

\* a Python tuple (year, month) is <<TRUE, <<year, month>>>>, None is <<FALSE>>
None == <<FALSE>>

Some(v) == <<TRUE, v>>

IsNone(o) == ~o[1]

get_last_processed_month(st, service_name, environment_type, plan_id) ==
    LET service_key == get_service_key(service_name, environment_type, plan_id)
    IN IF service_key \notin DOMAIN st THEN None
       ELSE IF "last_processed_month" \notin DOMAIN st[service_key] THEN None
       ELSE Some(ParseMonthKey(st[service_key]["last_processed_month"]))

\* update_last_processed_month that starts the service's data afresh
update_last_processed_month_Fresh(st, service_name, environment_type, plan_id, year, month, ts) ==
    LET service_key == get_service_key(service_name, environment_type, plan_id)
        svc2 == DictPut(EmptyDict, "last_processed_month", get_month_key(year, month))
    IN DictPut(st, service_key, DictPut(svc2, "last_updated", ts))

update_last_processed_month(st, service_name, environment_type, plan_id, year, month, ts) ==
    LET service_key == get_service_key(service_name, environment_type, plan_id)
        svc == ServiceDict(st, service_key)
        svc2 == DictPut(svc, "last_processed_month", get_month_key(year, month))
    IN DictPut(st, service_key, DictPut(svc2, "last_updated", ts))

\* current_date is the wall clock, as (year, month)
get_next_month_to_process(st, service_name, environment_type, plan_id, current_month) ==
    LET last_processed == get_last_processed_month(st, service_name, environment_type, plan_id)
    IN IF IsNone(last_processed) THEN Some(FirstRunMonth(current_month))
       ELSE LET nxt == NextMonthOf(last_processed[2])
            IN IF MonthGE(nxt, current_month) THEN None ELSE Some(nxt)

\* ------------------------------------------------------------------------
\* Configuration and the export marker of the usage source
\* ------------------------------------------------------------------------
\* os.getenv('START_MONTH', '2025-01')
START_MONTH == <<"2", "0", "2", "5", "-", "0", "1">>

\* Config.validate_start_month of a well-formed START_MONTH
validate_start_month(start_month) ==
    LET parts == ParseMonthKey(start_month)
    IN IF start_month # <<>> THEN parts ELSE <<2025, 1>>

IsDigits(s) == \A i \in 1..Len(s) : \E d \in 0..9 : DigitChars[d + 1] = s[i]

\* datetime.fromisoformat(s.replace('Z', '+00:00')) for the formats
\* YYYY-MM-DD and YYYY-MM-DDTHH:MM:SSZ, as (year, month); None stands for
\* the ValueError of any other text
FromIsoFormat(s) ==
    IF /\ Len(s) \in {10, 20}
       /\ IsDigits(SubSeq(s, 1, 4)) /\ s[5] = "-"
       /\ IsDigits(SubSeq(s, 6, 7)) /\ s[8] = "-"
       /\ IsDigits(SubSeq(s, 9, 10))
       /\ ParseInt(SubSeq(s, 1, 4)) >= 1
       /\ ParseInt(SubSeq(s, 6, 7)) \in 1..12
       /\ ParseInt(SubSeq(s, 9, 10)) \in
             1..LastDay(ParseInt(SubSeq(s, 1, 4)), ParseInt(SubSeq(s, 6, 7)))
       /\ Len(s) = 20 =>
             /\ s[11] = "T" /\ s[14] = ":" /\ s[17] = ":" /\ s[20] = "Z"
             /\ IsDigits(SubSeq(s, 12, 13)) /\ ParseInt(SubSeq(s, 12, 13)) \in 0..23
             /\ IsDigits(SubSeq(s, 15, 16)) /\ ParseInt(SubSeq(s, 15, 16)) \in 0..59
             /\ IsDigits(SubSeq(s, 18, 19)) /\ ParseInt(SubSeq(s, 18, 19)) \in 0..59
    THEN Some(<<ParseInt(SubSeq(s, 1, 4)), ParseInt(SubSeq(s, 6, 7))>>)
    ELSE None

\* OmnistrateMeteringReader.get_latest_month_with_complete_usage_data; st is
\* what load_usage_data_state returned ({} when the file is missing)
get_latest_month_with_complete_usage_data(st, service_name, environment_type, plan_id) ==
    LET service_key == get_service_key(service_name, environment_type, plan_id)
    IN IF st = EmptyDict THEN None
       ELSE IF service_key \notin DOMAIN st THEN None
       ELSE IF "lastSuccessfulExport" \notin DOMAIN st[service_key] THEN None
       ELSE IF st[service_key]["lastSuccessfulExport"] = <<>> THEN None
       ELSE FromIsoFormat(st[service_key]["lastSuccessfulExport"])

\* ------------------------------------------------------------------------
\* The usage source: the subscription files under the month's S3 prefix.
\* A usage record is [externalPayerId, dimension, value]; a missing field is
\* "" (record.get gives None, which is as falsy as ""), and value is kept in
\* tenths so that int(value) has something to truncate.
\* ------------------------------------------------------------------------
UsageRec(c, d, tenths) == [externalPayerId |-> c, dimension |-> d, value |-> tenths]

\* list_monthly_subscription_files + read_s3_json_file: the files of a month,
\* each as its list of records
UsageFiles(year, month) ==
    IF <<year, month>> = <<2024, 11>>
    THEN << <<UsageRec("c1", "d1", 1000), UsageRec("c2", "d1", 30), UsageRec("c1", "d1", 505)>>,
            <<UsageRec("c1", "d2", 70), UsageRec("", "d1", 10)>> >>
    ELSE IF <<year, month>> = <<2024, 12>>
    THEN << <<>> >>
    ELSE <<>>

RECURSIVE Concat(_)
\* all_usage_records.extend(usage_records) over the files
Concat(files) == IF Len(files) = 0 THEN <<>> ELSE Head(files) \o Concat(Tail(files))

\* int(value): truncation toward zero
IntOf(tenths) == IF tenths >= 0 THEN tenths \div 10 ELSE -((-tenths) \div 10)

\* A dict with tuple keys, kept as the list of its <<key, value>> items in
\* insertion order (the order Python iterates it in)
ItemIndex(items, key) ==
    IF \E i \in 1..Len(items) : items[i][1] = key
    THEN CHOOSE i \in 1..Len(items) : items[i][1] = key
    ELSE 0

RECURSIVE AggregateLoop_SkipIfBothMissing(_, _)
\* AggregateLoop that skips a record only when both fields are missing
AggregateLoop_SkipIfBothMissing(records, acc) ==
    IF Len(records) = 0 THEN acc
    ELSE LET record == Head(records)
             external_payer_id == record.externalPayerId
             dimension == record.dimension
         IN IF external_payer_id = "" /\ dimension = ""
            THEN AggregateLoop_SkipIfBothMissing(Tail(records), acc)
            ELSE LET key == <<external_payer_id, dimension>>
                     k == ItemIndex(acc, key)
                     acc2 == IF k = 0 THEN Append(acc, <<key, IntOf(record.value)>>)
                             ELSE [acc EXCEPT ![k] = <<key, acc[k][2] + IntOf(record.value)>>]
                 IN AggregateLoop_SkipIfBothMissing(Tail(records), acc2)

RECURSIVE AggregateLoop(_, _)
\* the loop of aggregate_usage_data over the records, acc is aggregated_data
AggregateLoop(records, acc) ==
    IF Len(records) = 0 THEN acc
    ELSE LET record == Head(records)
             external_payer_id == record.externalPayerId
             dimension == record.dimension
         IN IF external_payer_id = "" \/ dimension = ""
            THEN AggregateLoop(Tail(records), acc)
            ELSE LET key == <<external_payer_id, dimension>>
                     k == ItemIndex(acc, key)
                     acc2 == IF k = 0 THEN Append(acc, <<key, IntOf(record.value)>>)
                             ELSE [acc EXCEPT ![k] = <<key, acc[k][2] + IntOf(record.value)>>]
                 IN AggregateLoop(Tail(records), acc2)

\* A Python number is the fraction <<numerator, denominator>>, denominator > 0:
\* an int n is <<n, 1>>, a float is the fraction it stands for
Num(n) == <<n, 1>>

\* int(q): truncation toward zero
PyInt(q) == IF q[1] >= 0 THEN q[1] \div q[2] ELSE -((-q[1]) \div q[2])

\* A formula is [op, l, r] with op one of "/", "+", "-" and each operand
\* <<"dim", name>> or <<"num", n>>; the text l op r is what the DIMENSION_
\* variable holds
Operand(t, base_dimensions) ==
    IF t[1] = "num" THEN Num(t[2])
    ELSE base_dimensions[ItemIndex(base_dimensions, t[2])][2]

\* re.findall(r'\b[a-z_]+\b', formula) without the names of the builtins
RequiredDims(formula) ==
    {t[2] : t \in {x \in {formula.l, formula.r} : x[1] = "dim"}}

\* the names bound in base_dimensions
BaseNames(base_dimensions) == {base_dimensions[i][1] : i \in 1..Len(base_dimensions)}

\* does eval(formula, safe_dict) raise: a name that is not bound, a division
\* by zero
EvalRaises(formula, base_dimensions) ==
    \/ ~(RequiredDims(formula) \subseteq BaseNames(base_dimensions))
    \/ formula.op = "/" /\ Operand(formula.r, base_dimensions)[1] = 0

\* _evaluate_dimension_formula: float(eval(formula)), 0.0 after any exception
evaluate_dimension_formula(formula, base_dimensions) ==
    IF EvalRaises(formula, base_dimensions) THEN Num(0)
    ELSE LET a == Operand(formula.l, base_dimensions)
             b == Operand(formula.r, base_dimensions)
         IN IF formula.op = "/"
            THEN (IF b[1] > 0 THEN <<a[1] * b[2], a[2] * b[1]>>
                  ELSE <<-(a[1] * b[2]), a[2] * (-b[1])>>)
            ELSE IF formula.op = "+" THEN <<a[1] * b[2] + b[1] * a[2], a[2] * b[2]>>
            ELSE <<a[1] * b[2] - b[1] * a[2], a[2] * b[2]>>

RECURSIVE GroupByContract(_, _)
\* contracts[external_payer_id][dimension] = value, as the list of
\* <<external_payer_id, list of <<dimension, value>>>> in insertion order
GroupByContract(items, acc) ==
    IF Len(items) = 0 THEN acc
    ELSE LET item == Head(items)
             k == ItemIndex(acc, item[1][1])
             acc2 == IF k = 0 THEN Append(acc, <<item[1][1], <<<<item[1][2], item[2]>>>>>>)
                     ELSE [acc EXCEPT ![k] = <<acc[k][1], Append(acc[k][2], <<item[1][2], item[2]>>)>>]
         IN GroupByContract(Tail(items), acc2)

\* aggregated_data[key] = value on the list of items
SetItem(items, key, value) ==
    IF ItemIndex(items, key) = 0 THEN Append(items, <<key, value>>)
    ELSE [items EXCEPT ![ItemIndex(items, key)] = <<key, value>>]

RECURSIVE CustomDimsLoop(_, _, _, _)
\* the loops "for external_payer_id, base_dimensions in contracts.items():
\* for custom_dim_name, formula in self.custom_dimensions.items()"; acc is
\* aggregated_data, j the position in dims
CustomDimsLoop(contracts, dims, j, acc) ==
    IF Len(contracts) = 0 THEN acc
    ELSE IF j > Len(dims) THEN CustomDimsLoop(Tail(contracts), dims, 1, acc)
    ELSE LET external_payer_id == Head(contracts)[1]
             base_dimensions == Head(contracts)[2]
             custom_dim_name == dims[j][1]
             formula == dims[j][2]
             custom_value == evaluate_dimension_formula(formula, base_dimensions)
         IN IF /\ RequiredDims(formula) \subseteq BaseNames(base_dimensions)
               /\ custom_value[1] > 0
            THEN CustomDimsLoop(contracts, dims, j + 1,
                     SetItem(acc, <<external_payer_id, custom_dim_name>>, custom_value))
            ELSE CustomDimsLoop(contracts, dims, j + 1, acc)

\* the items of the accumulation loop as Python numbers
AsNumbers(items) == [i \in 1..Len(items) |-> <<items[i][1], Num(items[i][2])>>]

\* dims is self.custom_dimensions, the list of <<name, formula>>
aggregate_usage_data(usage_records, dims) ==
    LET aggregated_data == AsNumbers(AggregateLoop(usage_records, <<>>))
    IN IF Len(dims) # 0
       THEN CustomDimsLoop(GroupByContract(aggregated_data, <<>>), dims, 1, aggregated_data)
       ELSE aggregated_data

\* filter_success_contracts that drops nothing
filter_success_contracts_KeepAll(aggregated_data, st, service_name, environment_type, plan_id, year, month) ==
    aggregated_data

RECURSIVE filter_success_contracts(_, _, _, _, _, _, _)
filter_success_contracts(aggregated_data, st, service_name, environment_type, plan_id, year, month) ==
    IF Len(aggregated_data) = 0 THEN <<>>
    ELSE LET item == Head(aggregated_data)
             rest == filter_success_contracts(Tail(aggregated_data), st, service_name,
                                              environment_type, plan_id, year, month)
         IN IF ~is_contract_month_processed(st, service_name, environment_type, plan_id,
                                            item[1][1], year, month)
            THEN <<item>> \o rest
            ELSE rest

Pad2(n) == <<Chr((n \div 10) % 10), Chr(n % 10)>>

\* datetime(...).isoformat() + "Z"
IsoZ(y, m, d, hh, mm, ss) ==
    get_month_key(y, m) \o <<"-">> \o Pad2(d) \o <<"T">> \o Pad2(hh) \o <<":">>
        \o Pad2(mm) \o <<":">> \o Pad2(ss) \o <<"Z">>

CLOUD == "aws"

\* one metering record of send_to_clazar
MeteringRecord(external_payer_id, dimension, quantity, year, month) ==
    [cloud |-> CLOUD,
     contract_id |-> external_payer_id,
     dimension |-> dimension,
     start_time |-> IsoZ(year, month, 1, 0, 0, 0),
     end_time |-> IsoZ(year, month, LastDay(year, month), 23, 59, 59),
     quantity |-> IntToStr(PyInt(quantity))]

\* ContractRecords that makes one payload of each aggregated item
ContractRecords_PerItem(aggregated_data, acc, year, month) ==
    [i \in 1..Len(aggregated_data) |->
        <<aggregated_data[i][1][1],
          <<MeteringRecord(aggregated_data[i][1][1], aggregated_data[i][1][2],
                           aggregated_data[i][2], year, month)>> >>]

RECURSIVE ContractRecords(_, _, _, _)
\* contract_records of send_to_clazar: the list of <<contract_id, records>>
\* in the order the contracts first appear in aggregated_data
ContractRecords(aggregated_data, acc, year, month) ==
    IF Len(aggregated_data) = 0 THEN acc
    ELSE LET item == Head(aggregated_data)
             rec == MeteringRecord(item[1][1], item[1][2], item[2], year, month)
             k == ItemIndex(acc, item[1][1])
             acc2 == IF k = 0 THEN Append(acc, <<item[1][1], <<rec>>>>)
                     ELSE [acc EXCEPT ![k] = <<acc[k][1], Append(acc[k][2], rec)>>]
         IN ContractRecords(Tail(aggregated_data), acc2, year, month)

\* ------------------------------------------------------------------------
\* State of the system
\* ------------------------------------------------------------------------
VARIABLES
    state,            \* the state blob stored at state_file_path
    store_failures,   \* calls on the state file that have failed so far
    now,              \* wall clock, as (year, month)
    usage_data_state, \* omnistrate-metering/last_success_export.json, as it reads
    env_dimensions,   \* the DIMENSION_ variables of the environment: <<name, formula>>
    in_records,       \* aggregation on its own: the usage records handed in
    out_aggregated,   \* a function on its own: what the call returned
    ops,              \* the state operations on their own: the last call and its count
    writers,          \* two processes on one blob: what each has loaded and is to save
    client,           \* one ClazarClient.send_metering_data call
    faults,           \* what the state store may fail at in this behaviour: "load", "save"
    retry_limits,     \* the values MAX_RETRIES may hold when a run reads it
    ticks,            \* month boundaries crossed so far
    crashes,          \* process kills so far
    pc,               \* position of the worker
    max_retries,      \* MAX_RETRIES of the running process
    dry_run,          \* DRY_RUN of the running process
    exit_status,      \* how the last main_processing ended
    access_token,     \* does the processor hold an access token
    processed_count,  \* process_pending_months
    cur,              \* (year, month) being processed
    error_contracts,  \* retry_error_contracts: the entries fetched for retry
    idx,              \* retry_error_contracts: position in error_contracts
    current_retry,    \* retry_error_contracts
    contract_records, \* send_to_clazar: list of <<contract_id, records>>
    cidx,             \* send_to_clazar: position in contract_records
    attempt,          \* send_to_clazar
    resp,             \* the response of the call in flight
    retry_success,    \* process_month
    all_success,      \* all_success of the phase that is running
    result,           \* what process_month returned
    accepted,         \* ledger: <<contract, month>> -> submissions accepted
    recAccepted,      \* ledger: <<contract, dimension, month>> -> times accepted
    lateSub,          \* ledger: <<contract, month>> called again after an acceptance
    lateRec,          \* ledger: records sent again after their acceptance
    warned,           \* ledger: <<contract, month>> whose POST was answered with a warning
    monthRuns,        \* month -> process_month calls started for it (capped)
    sent,             \* contracts the running submission phase has sent
    doneBefore,       \* contracts in the month's success list when process_month began
    retried,          \* contracts the running retry phase has resubmitted
    failLog           \* <<contract, month>> -> messages of the failures recorded
                      \* for the contract's error entry since it was created

vars == <<state, store_failures, now, usage_data_state, env_dimensions, in_records, out_aggregated, ops, writers, client, faults, retry_limits, ticks, crashes, pc, max_retries, dry_run, exit_status, access_token, processed_count, cur,
          error_contracts, idx, current_retry, contract_records, cidx, attempt, resp,
          retry_success, all_success, result, accepted, recAccepted, lateSub, lateRec,
          warned, monthRuns, sent, doneBefore, retried, failLog>>

store == <<state, store_failures>>
ledger == <<accepted, recAccepted, lateSub, lateRec, warned>>
clock == <<now, ticks, crashes, usage_data_state, env_dimensions, in_records, out_aggregated,
           ops, writers, client, faults, retry_limits>>
config == <<max_retries, dry_run, exit_status, access_token>>
retryLocals == <<error_contracts, idx, current_retry>>
sendLocals == <<contract_records, cidx, attempt, sent>>
runLocals == <<doneBefore, retried>>

\* responses of the billing API to one POST
\*   "ok"      200, every result has status success
\*   "warn"    200, a result has a status other than success and no errors
\*   "err"     200, every result carries errors
\*   "partial" 200, the first result is a success, the others carry errors
\*   "net"     requests.RequestException (no connection, timeout, non-200)
\*   "http_400" status 400, which the worker raises as a RequestException
WholeOutcomes == {"ok", "warn", "err", "net"}
AllOutcomes == WholeOutcomes \cup {"partial"}
HttpOutcomes == WholeOutcomes \cup {"http_400"}

\* the POST raised requests.RequestException, by itself or by
\* "if response.status_code != 200: raise requests.RequestException(...)"
IsRequestException(o) == o \in {"net", "http_400"}

\* one entry of the "results" of a response; a key the entry lacks is ""
\* for status and <<>> for errors
Result(status, errors) == [status |-> status, errors |-> errors]

\* response_data["results"] of the 200 responses
Results(o) ==
    IF o = "ok" THEN <<Result("success", <<>>)>>
    ELSE IF o = "warn" THEN <<Result("pending", <<>>)>>
    ELSE IF o = "err" THEN <<Result("error", <<"E_api">>)>>
    ELSE <<Result("success", <<>>), Result("error", <<"E_api">>)>>

\* has_errors with a status other than success counted as an error
has_errors_OrStatus(results) ==
    \E i \in 1..Len(results) :
       results[i].errors # <<>> \/ results[i].status # "success"

\* send_to_clazar and retry_error_contracts: has_errors after the loop over
\* the results
has_errors(results) == \E i \in 1..Len(results) : results[i].errors # <<>>

RECURSIVE ErrorsIn(_)
\* errors.extend(result["errors"]) over the results
ErrorsIn(results) ==
    IF Len(results) = 0 THEN <<>> ELSE Head(results).errors \o ErrorsIn(Tail(results))

\* ClazarClient.check_response_for_errors
check_response_for_errors(results) ==
    [has_errors |-> \E i \in 1..Len(results) : results[i].errors # <<>>,
     errors |-> ErrorsIn(results),
     error_code |-> "API_ERROR",
     error_message |-> "Unknown error",
     warnings |-> SelectSeq(results, LAMBDA r : r.errors = <<>> /\ r.status \notin {"", "success"})]

Get(d, k) == IF k \in DOMAIN d THEN d[k] ELSE 0

\* a counter that stops at MaxCount
Cap2(n) == IF n >= MaxCount THEN MaxCount ELSE n

\* the records of a payload the API accepts when it answers o
AcceptedRecords(o, records) ==
    IF o \in {"ok", "warn"} THEN SeqRange(records)
    ELSE IF o = "partial" THEN {records[1]}
    ELSE {}

RecKey(r, ym) == <<r.contract_id, r.dimension, ym>>

\* the ledger after the API answered o to the payload of the contract
Post(o, contract_id, records, ym) ==
    /\ accepted' = IF o \in {"ok", "warn"}
                   THEN DictPut(accepted, <<contract_id, ym>>,
                                Cap2(Get(accepted, <<contract_id, ym>>) + 1))
                   ELSE accepted
    /\ lateSub' = IF Get(accepted, <<contract_id, ym>>) > 0
                  THEN lateSub \cup {<<contract_id, ym>>} ELSE lateSub
    /\ recAccepted' = [k \in (DOMAIN recAccepted) \cup
                              {RecKey(r, ym) : r \in AcceptedRecords(o, records)} |->
                          IF k \in {RecKey(r, ym) : r \in AcceptedRecords(o, records)}
                          THEN Cap2(Get(recAccepted, k) + 1) ELSE recAccepted[k]]
    /\ lateRec' = lateRec \cup {RecKey(r, ym) : r \in
                                  {x \in SeqRange(records) : Get(recAccepted, RecKey(x, ym)) > 0}}
    /\ warned' = IF o = "warn" THEN warned \cup {<<contract_id, ym>>} ELSE warned

\* the blob another service may have left before the first run
OtherBlob ==
    DictPut(EmptyDict, get_service_key(OTHER_SERVICE[1], OTHER_SERVICE[2], OTHER_SERVICE[3]),
        [success_contracts |-> DictPut(EmptyDict, get_month_key(2024, 11), <<"c1">>),
         error_contracts |-> DictPut(EmptyDict, get_month_key(2024, 12),
             <<[contract_id |-> "c2", errors |-> <<"E_net">>, retry_count |-> 1,
                last_retry_time |-> StartNow, code |-> "NETWORK_ERROR",
                message |-> "E_net",
                payload |-> [request |-> <<MeteringRecord("c2", "d1", Num(3), 2024, 12)>>]]>>),
         last_processed_month |-> get_month_key(2024, 11),
         last_updated |-> StartNow])

\* one export marker for a service
Marker(svc, text) ==
    DictPut(EmptyDict, get_service_key(svc[1], svc[2], svc[3]),
            DictPut(EmptyDict, "lastSuccessfulExport", text))

\* what the export marker may hold: no file, another service only, a
\* timestamp that is no timestamp, and the end of October 2024
UsageDataStates ==
    {EmptyDict,
     Marker(OTHER_SERVICE, IsoZ(2024, 12, 31, 23, 59, 59)),
     Marker(SERVICE, <<"n", "/", "a">>),
     Marker(SERVICE, IsoZ(2024, 10, 31, 23, 59, 59))}

NoMonth == <<0, 0>>

\* no state operation has been called on its own
NoOp == [count |-> 0, kind |-> "none", svc |-> SERVICE, contract_id |-> "", ym |-> NoMonth,
         before |-> EmptyDict]

Writers == {1, 2}

\* a process that is not inside a state operation
IdleWriter == [pc |-> "idle", loaded |-> EmptyDict, kind |-> "none", contract_id |-> ""]

\* no process is inside a state operation
NoWriters == [w \in Writers |-> IdleWriter]

IdleLocals ==
    /\ max_retries = 0 /\ dry_run = FALSE /\ exit_status = "none" /\ access_token = FALSE
    /\ processed_count = 0 /\ cur = NoMonth
    /\ error_contracts = <<>> /\ idx = 0 /\ current_retry = 0
    /\ contract_records = <<>> /\ cidx = 0 /\ attempt = 0 /\ resp = "none"
    /\ retry_success = TRUE /\ all_success = TRUE /\ result = TRUE /\ sent = {}
    /\ doneBefore = {} /\ retried = {}

\* a send_metering_data call: its arguments and the client's fields, the
\* loop variable, the POSTs and sleeps made, the outcomes of the POSTs in
\* order, and how the call ended
Call(has_records, token, dry, retries) ==
    [has_records |-> has_records, access_token |-> token, dry_run |-> dry,
     max_retries |-> retries, attempt |-> 0, posts |-> 0, sleeps |-> 0, log |-> <<>>,
     outcome |-> "none"]

\* the worker before its first run
InitWorker ==
    /\ store_failures = 0
    /\ ops = NoOp /\ writers = NoWriters
    /\ client = Call(FALSE, FALSE, FALSE, 0)
    /\ now = StartNow /\ ticks = 0 /\ crashes = 0
    /\ IdleLocals
    /\ accepted = EmptyDict /\ recAccepted = EmptyDict /\ lateSub = {} /\ lateRec = {}
    /\ warned = {}
    /\ monthRuns = EmptyDict /\ failLog = EmptyDict

\* a state store that answers every call, and MAX_RETRIES free to differ
\* from run to run
PlainEnvironment == faults = {} /\ retry_limits = MaxRetriesChoices

Init ==
    /\ state \in {EmptyDict, OtherBlob}
    /\ usage_data_state \in UsageDataStates
    /\ PlainEnvironment
    /\ env_dimensions = <<>> /\ in_records = <<>> /\ out_aggregated = <<>>
    /\ pc = "idle"
    /\ InitWorker

\* the worker's locals after the process ended; status is what
\* main_processing ended with: "true" and "false" are its return values,
\* "exit_1" is sys.exit(1), "killed" a kill of the process
ToIdle(status) ==
    /\ pc' = "idle"
    /\ exit_status' = status
    /\ access_token' = FALSE
    /\ max_retries' = 0 /\ dry_run' = FALSE /\ processed_count' = 0 /\ cur' = NoMonth
    /\ error_contracts' = <<>> /\ idx' = 0 /\ current_retry' = 0
    /\ contract_records' = <<>> /\ cidx' = 0 /\ attempt' = 0 /\ resp' = "none"
    /\ retry_success' = TRUE /\ all_success' = TRUE /\ result' = TRUE /\ sent' = {}
    /\ doneBefore' = {} /\ retried' = {}

\* ------------------------------------------------------------------------
\* The worker
\* ------------------------------------------------------------------------
SN == SERVICE[1]
ET == SERVICE[2]
PID == SERVICE[3]

\* the contracts in the success list of the worker's service for a month
SuccessOf(st, ym) ==
    LET service_key == get_service_key(SN, ET, PID)
        month_key == get_month_key(ym[1], ym[2])
    IN IF /\ service_key \in DOMAIN st
          /\ "success_contracts" \in DOMAIN st[service_key]
          /\ month_key \in DOMAIN st[service_key]["success_contracts"]
       THEN SeqRange(st[service_key]["success_contracts"][month_key])
       ELSE {}

\* the error entries of the worker's service for a month
ErrorsOf(st, ym) ==
    LET service_key == get_service_key(SN, ET, PID)
        month_key == get_month_key(ym[1], ym[2])
    IN IF /\ service_key \in DOMAIN st
          /\ "error_contracts" \in DOMAIN st[service_key]
          /\ month_key \in DOMAIN st[service_key]["error_contracts"]
       THEN st[service_key]["error_contracts"][month_key]
       ELSE <<>>

\* str(e) of a failed request, or the errors of an error response
FailureText(o) ==
    IF o = "net" THEN "E_net" ELSE IF o = "http_400" THEN "E_http_400" ELSE "E_api"

\* load_state as an operation sees it: the blob, or {} when get_object or
\* json.loads failed, which the method logs and answers with {}
Loads ==
    IF "load" \in faults /\ store_failures < MaxStoreFailures THEN {state, EmptyDict}
    ELSE {state}

\* save_state of the blob an operation made of the loaded one: put_object
\* stores it, or fails with a ClientError that the method logs and drops, so
\* that the stored blob stays; an operation that left the loaded blob as it
\* was did not save
Store(st, new) ==
    IF new = st THEN {state}
    ELSE IF "save" \in faults /\ store_failures < MaxStoreFailures THEN {new, state}
    ELSE {new}

\* an operation that loaded st and saved nothing
Reads(st) ==
    /\ UNCHANGED state
    /\ store_failures' = store_failures + (IF st # state THEN 1 ELSE 0)

\* an operation that loaded st and made new of it
Writes(st, new) ==
    /\ state' \in Store(st, new)
    /\ store_failures' = store_failures + (IF st # state THEN 1 ELSE 0)
                                         + (IF new # st /\ state' # new THEN 1 ELSE 0)

Logged(log, contract_id, ym, text) ==
    DictPut(log, <<contract_id, ym>>,
            (IF <<contract_id, ym>> \in DOMAIN log THEN log[<<contract_id, ym>>] ELSE <<>>)
                \o <<text>>)

\* main_processing: the configuration is read from the environment
StartCycle ==
    /\ pc = "idle"
    /\ max_retries' \in retry_limits
    /\ dry_run' \in BOOLEAN
    /\ exit_status' = "none"
    /\ access_token' = FALSE
    /\ processed_count' = 0
    /\ pc' = "auth"
    /\ UNCHANGED <<store, clock, cur, retryLocals, sendLocals, resp, retry_success,
                   all_success, result, ledger, monthRuns, runLocals, failLog>>

\* what the POST to https://api.clazar.io/authenticate/ may give: 200 with an
\* access token, a status other than 200, 200 without a token, an exception
\* of requests
AuthOutcomes == {"ok", "rejected", "no_token", "net"}

\* AuthPasses that lets every answer pass
AuthPasses_Always(o) == TRUE

\* main_processing goes on to build the processor: the status is 200 and the
\* answer holds an access token
AuthPasses(o) == o = "ok"

\* main_processing: the POST to the authentication endpoint, made once and
\* whatever DRY_RUN says; a status other than 200 or a missing token is
\* sys.exit(1), an exception is caught and False is returned; otherwise the
\* processor is built and process_pending_months starts
Authenticate ==
    /\ pc = "auth"
    /\ \E o \in AuthOutcomes :
          IF AuthPasses(o)
          THEN /\ pc' = "next"
               /\ access_token' = (o = "ok")
               /\ UNCHANGED <<max_retries, dry_run, exit_status, processed_count, cur,
                              retryLocals, sendLocals, resp, retry_success, all_success,
                              result, runLocals>>
          ELSE ToIdle(IF o = "net" THEN "false" ELSE "exit_1")
    /\ UNCHANGED <<store, clock, ledger, monthRuns, failLog>>

\* process_pending_months: the loop head, get_next_month_to_process and the
\* start of process_month
NextMonthStep ==
    /\ pc = "next"
    /\ \E st \in Loads :
       /\ Reads(st)
       /\ LET next_month == get_next_month_to_process(st, SN, ET, PID, now)
          IN IF processed_count < max_months /\ ~IsNone(next_month)
          THEN /\ cur' = next_month[2]
               /\ pc' = "retry_fetch"
               /\ monthRuns' = DictPut(monthRuns, next_month[2],
                                       Cap2(Get(monthRuns, next_month[2]) + 1))
               /\ doneBefore' = SuccessOf(state, next_month[2])
               /\ retried' = {}
               /\ UNCHANGED <<config, processed_count, retryLocals,
                              sendLocals, resp, retry_success, all_success, result>>
          ELSE ToIdle("true") /\ UNCHANGED monthRuns
    /\ UNCHANGED <<clock, ledger, failLog>>

\* "retry_count = error_entry.get('retry_count', 0)"
RetryCount(error_entry) == error_entry.retry_count

\* RetryPayload that takes the first record of the stored payload only
RetryPayload_FirstRecord(error_entry) == [request |-> <<error_entry.payload.request[1]>>]

\* "payload = error_entry.get('payload')"
RetryPayload(error_entry) == error_entry.payload

\* NextRetry that counts nothing
NextRetry_Stuck(n) == n

\* "current_retry += 1"
NextRetry(n) == n + 1

\* retry_error_contracts: the step to the entry at position i of the fetched
\* list, or out of the loop and back into process_month
RetryGoto(entries, i, ok) ==
    IF i > Len(entries)
    THEN /\ retry_success' = ok
         /\ pc' = "discover"
         /\ error_contracts' = <<>> /\ idx' = 0 /\ current_retry' = 0
         /\ all_success' = TRUE
    ELSE /\ error_contracts' = entries /\ idx' = i
         /\ current_retry' = RetryCount(entries[i])
         /\ all_success' = ok
         /\ pc' = "retry_loop"
         /\ UNCHANGED retry_success

\* retry_error_contracts: get_error_contracts_for_retry
RetryFetch ==
    /\ pc = "retry_fetch"
    /\ \E st \in Loads :
          /\ Reads(st)
          /\ RetryGoto(get_error_contracts_for_retry(st, SN, ET, PID, cur[1], cur[2],
                                                     max_retries),
                       1, TRUE)
    /\ UNCHANGED <<clock, config, processed_count, cur, sendLocals, resp, result,
                   ledger, monthRuns, runLocals, failLog>>

\* retry_error_contracts: one turn of "while current_retry < max_retries" up
\* to the response of the POST
RetryCall(outcomes) ==
    /\ pc = "retry_loop"
    /\ LET error_entry == error_contracts[idx]
       IN IF current_retry < max_retries
          THEN /\ current_retry' = NextRetry(current_retry)
               /\ retried' = retried \cup {error_entry.contract_id}
               /\ UNCHANGED <<error_contracts, idx, all_success, retry_success>>
               /\ IF dry_run
                  THEN /\ pc' = "retry_remove"
                       /\ UNCHANGED <<resp, ledger>>
                  ELSE \E o \in outcomes :
                          /\ o = "partial" => Len(RetryPayload(error_entry).request) >= 2
                          /\ resp' = o
                          /\ Post(o, error_entry.contract_id, RetryPayload(error_entry).request, cur)
                          /\ pc' = "retry_handle"
          ELSE /\ RetryGoto(error_contracts, idx + 1, FALSE)
               /\ UNCHANGED <<resp, ledger, retried>>
    /\ UNCHANGED <<store, clock, config, processed_count, cur, sendLocals, result, monthRuns,
                   doneBefore, failLog>>

\* retry_error_contracts: what is done with the response
RetryHandle ==
    /\ pc = "retry_handle"
    /\ LET error_entry == error_contracts[idx]
           contract_id == error_entry.contract_id
           payload == RetryPayload(error_entry)
       IN IF ~IsRequestException(resp) /\ ~has_errors(Results(resp))
          THEN /\ pc' = "retry_remove"
               /\ UNCHANGED <<store, retryLocals, all_success, retry_success, failLog>>
          ELSE /\ \E st \in Loads :
                    Writes(st,
                       IF IsRequestException(resp)
                       THEN mark_contract_month_error(st, SN, ET, PID, contract_id,
                                cur[1], cur[2], <<FailureText(resp)>>, "RETRY_ERROR",
                                FailureText(resp), payload, current_retry, now)
                       ELSE mark_contract_month_error(st, SN, ET, PID, contract_id,
                                cur[1], cur[2], <<"E_api">>, "API_ERROR", "Unknown error",
                                payload, current_retry, now))
               /\ failLog' = Logged(failLog, contract_id, cur, FailureText(resp))
               /\ IF current_retry >= max_retries
                  THEN RetryGoto(error_contracts, idx + 1, FALSE)
                  ELSE /\ pc' = "retry_loop"
                       /\ UNCHANGED <<retryLocals, all_success, retry_success>>
    /\ resp' = "none"
    /\ UNCHANGED <<clock, config, processed_count, cur, sendLocals, result, ledger, monthRuns,
                   runLocals>>

\* retry_error_contracts: remove_error_contract after a successful retry
RetryRemove ==
    /\ pc = "retry_remove"
    /\ \E st \in Loads :
          Writes(st, remove_error_contract(st, SN, ET, PID,
                                   error_contracts[idx].contract_id, cur[1], cur[2], now))
    /\ pc' = "retry_mark"
    /\ failLog' = DictDel(failLog, <<error_contracts[idx].contract_id, cur>>)
    /\ UNCHANGED <<clock, config, processed_count, cur, retryLocals, sendLocals, resp,
                   retry_success, all_success, result, ledger, monthRuns, runLocals>>

\* retry_error_contracts: mark_contract_month_processed after a successful retry
RetryMark ==
    /\ pc = "retry_mark"
    /\ \E st \in Loads :
          Writes(st, mark_contract_month_processed(st, SN, ET, PID,
                                   error_contracts[idx].contract_id, cur[1], cur[2], now))
    /\ RetryGoto(error_contracts, idx + 1, all_success)
    /\ UNCHANGED <<clock, config, processed_count, cur, sendLocals, resp, result, ledger,
                   monthRuns, runLocals, failLog>>

\* process_month_result that looks at the submission phase only
process_month_result_SendOnly(retry_ok, send_ok) == send_ok

\* process_month: "return retry_success and send_success"
process_month_result(retry_ok, send_ok) == retry_ok /\ send_ok

\* process_month: what it returns, handed to process_pending_months
Return(value) ==
    /\ result' = value
    /\ pc' = "month_done"
    /\ cidx' = 0 /\ attempt' = 0
    /\ all_success' = TRUE
    /\ UNCHANGED contract_records

\* process_month after the retry phase: the files are listed and read, the
\* records aggregated and filtered, and send_to_clazar is entered; the loads
\* of one filter_success_contracts call fail or succeed together
Discover ==
    /\ pc = "discover"
    /\ \E st \in Loads :
       /\ Reads(st)
       /\ LET subscription_files == UsageFiles(cur[1], cur[2])
              all_usage_records == Concat(subscription_files)
              aggregated_data == aggregate_usage_data(all_usage_records, env_dimensions)
              filtered_data == filter_success_contracts(aggregated_data, st, SN, ET, PID,
                                                        cur[1], cur[2])
          IN IF Len(subscription_files) = 0 THEN Return(retry_success) /\ UNCHANGED sent
             ELSE IF Len(all_usage_records) = 0 THEN Return(retry_success) /\ UNCHANGED sent
             ELSE IF Len(filtered_data) = 0 THEN Return(retry_success) /\ UNCHANGED sent
             ELSE IF ~access_token /\ ~dry_run
             THEN Return(process_month_result(retry_success, FALSE)) /\ UNCHANGED sent
             ELSE /\ contract_records' = ContractRecords(filtered_data, <<>>, cur[1], cur[2])
                  /\ cidx' = 1 /\ attempt' = 0 /\ all_success' = TRUE /\ sent' = {}
                  /\ pc' = "send_loop"
                  /\ UNCHANGED result
    /\ UNCHANGED <<clock, config, processed_count, cur, retryLocals, resp,
                   retry_success, ledger, monthRuns, runLocals, failLog>>

\* SendGoto that leaves the loop at the first contract that failed
SendGoto_StopOnFailure(i, ok) ==
    IF i > Len(contract_records) \/ ~ok
    THEN Return(process_month_result(retry_success, ok))
    ELSE /\ cidx' = i /\ attempt' = 0 /\ all_success' = ok
         /\ pc' = "send_loop"
         /\ UNCHANGED <<contract_records, result>>

\* send_to_clazar: on to the contract at position i, or out of the loop and
\* back through process_month ("return retry_success and send_success")
SendGoto(i, ok) ==
    IF i > Len(contract_records)
    THEN Return(process_month_result(retry_success, ok))
    ELSE /\ cidx' = i /\ attempt' = 0 /\ all_success' = ok
         /\ pc' = "send_loop"
         /\ UNCHANGED <<contract_records, result>>

\* send_to_clazar: one turn of "for attempt in range(max_retries + 1)" up to
\* the response of the POST; in dry-run mode the contract is marked instead
SendCall(outcomes) ==
    /\ pc = "send_loop"
    /\ LET contract_id == contract_records[cidx][1]
           records == contract_records[cidx][2]
       IN /\ sent' = sent \cup {contract_id}
          /\ IF dry_run
             THEN /\ \E st \in Loads :
                       Writes(st, mark_contract_month_processed(st, SN, ET, PID,
                                                contract_id, cur[1], cur[2], now))
                  /\ SendGoto(cidx + 1, all_success)
                  /\ UNCHANGED <<resp, ledger>>
             ELSE \E o \in outcomes :
                     /\ o = "partial" => Len(records) >= 2
                     /\ resp' = o
                     /\ Post(o, contract_id, records, cur)
                     /\ pc' = "send_handle"
                     /\ UNCHANGED <<store, contract_records, cidx, attempt, all_success, result>>
    /\ UNCHANGED <<clock, config, processed_count, cur, retryLocals, retry_success, monthRuns,
                   runLocals, failLog>>

\* send_to_clazar: what is done with the response
SendHandle ==
    /\ pc = "send_handle"
    /\ LET contract_id == contract_records[cidx][1]
           payload == [request |-> contract_records[cidx][2]]
       IN IF ~IsRequestException(resp) /\ ~has_errors(Results(resp))
          THEN /\ pc' = "send_remove"
               /\ UNCHANGED <<store, contract_records, cidx, attempt, all_success, result,
                              failLog>>
          ELSE IF attempt = max_retries
          THEN /\ \E st \in Loads :
                    Writes(st,
                       IF IsRequestException(resp)
                       THEN mark_contract_month_error(st, SN, ET, PID, contract_id,
                                cur[1], cur[2], <<FailureText(resp)>>, "NETWORK_ERROR",
                                FailureText(resp), payload, attempt, now)
                       ELSE mark_contract_month_error(st, SN, ET, PID, contract_id,
                                cur[1], cur[2], <<"E_api">>, "API_ERROR", "Unknown error",
                                payload, attempt, now))
               /\ failLog' = Logged(failLog, contract_id, cur, FailureText(resp))
               /\ SendGoto(cidx + 1, FALSE)
          ELSE /\ attempt' = attempt + 1
               /\ pc' = "send_loop"
               /\ UNCHANGED <<store, contract_records, cidx, all_success, result, failLog>>
    /\ resp' = "none"
    /\ UNCHANGED <<clock, config, processed_count, cur, retryLocals, retry_success, ledger,
                   monthRuns, sent, runLocals>>

\* send_to_clazar: remove_error_contract after a successful POST
SendRemove ==
    /\ pc = "send_remove"
    /\ \E st \in Loads :
          Writes(st, remove_error_contract(st, SN, ET, PID,
                                   contract_records[cidx][1], cur[1], cur[2], now))
    /\ pc' = "send_mark"
    /\ failLog' = DictDel(failLog, <<contract_records[cidx][1], cur>>)
    /\ UNCHANGED <<clock, config, processed_count, cur, retryLocals, sendLocals, resp,
                   retry_success, all_success, result, ledger, monthRuns, runLocals>>

\* send_to_clazar: mark_contract_month_processed after a successful POST
SendMark ==
    /\ pc = "send_mark"
    /\ \E st \in Loads :
          Writes(st, mark_contract_month_processed(st, SN, ET, PID,
                                   contract_records[cidx][1], cur[1], cur[2], now))
    /\ SendGoto(cidx + 1, all_success)
    /\ UNCHANGED <<clock, config, processed_count, cur, retryLocals, resp, retry_success,
                   ledger, monthRuns, sent, runLocals, failLog>>

\* process_pending_months: after process_month returned
\* Advances that does not look at what process_month returned
Advances_Always(success) == TRUE

\* process_pending_months: "if success:" before update_last_processed_month
Advances(success) == success

MonthDone ==
    /\ pc = "month_done"
    /\ IF Advances(result)
       THEN /\ \E st \in Loads :
                 Writes(st, update_last_processed_month(st, SN, ET, PID,
                                          cur[1], cur[2], now))
            /\ processed_count' = processed_count + 1
            /\ pc' = "next"
            /\ cur' = NoMonth /\ sent' = {} /\ contract_records' = <<>>
            /\ doneBefore' = {} /\ retried' = {}
            /\ UNCHANGED <<config, retryLocals, cidx, attempt, resp,
                           retry_success, all_success, result>>
       ELSE ToIdle("false") /\ UNCHANGED store
    /\ UNCHANGED <<clock, ledger, monthRuns, failLog>>

\* the wall clock passes a month boundary between two runs
Tick ==
    /\ pc = "idle"
    /\ ticks < MaxTicks
    /\ now' = ClockSucc(now)
    /\ ticks' = ticks + 1
    /\ UNCHANGED <<store, crashes, usage_data_state, env_dimensions, in_records,
                   out_aggregated, ops, writers, client, faults, retry_limits, pc, config, processed_count, cur, retryLocals, sendLocals,
                   resp, retry_success, all_success, result, ledger, monthRuns, runLocals,
                   failLog>>

\* the process is killed between two steps; the next run starts from the blob
Crash ==
    /\ pc # "idle"
    /\ crashes < MaxCrashes
    /\ crashes' = crashes + 1
    /\ ToIdle("killed")
    /\ UNCHANGED <<store, now, ticks, usage_data_state, env_dimensions, in_records,
                   out_aggregated, ops, writers, client, faults, retry_limits, ledger, monthRuns, failLog>>

Step(outcomes) ==
    \/ StartCycle
    \/ Authenticate
    \/ NextMonthStep
    \/ RetryFetch
    \/ RetryCall(outcomes)
    \/ RetryHandle
    \/ RetryRemove
    \/ RetryMark
    \/ Discover
    \/ SendCall(outcomes)
    \/ SendHandle
    \/ SendRemove
    \/ SendMark
    \/ MonthDone
    \/ Tick

\* one worker, no kill, every POST answered as a whole
Next == Step(WholeOutcomes)

Spec == Init /\ [][Next]_vars

\* one worker, no kill, the API may accept only part of a payload
NextPartial == Step(AllOutcomes)

SpecPartial == Init /\ [][NextPartial]_vars

\* one worker, no kill, the API may answer a POST with status 400
NextHttp == Step(HttpOutcomes)

SpecHttp == Init /\ [][NextHttp]_vars

\* the worker on a state store that fails at what the behaviour's faults name
InitFaults(f) ==
    /\ state \in {EmptyDict, OtherBlob}
    /\ usage_data_state = EmptyDict
    /\ faults = f /\ retry_limits = MaxRetriesChoices
    /\ env_dimensions = <<>> /\ in_records = <<>> /\ out_aggregated = <<>>
    /\ pc = "idle"
    /\ InitWorker

\* one worker, no kill, put_object may fail at any save_state
SpecSaveFaults == InitFaults({"save"}) /\ [][Next]_vars

\* one worker, no kill, get_object or json.loads may fail at any load_state
SpecLoadFaults == InitFaults({"load"}) /\ [][Next]_vars

\* the blob of a run with MAX_RETRIES=0 that was killed after the only POST
\* for c1 of 2024-11 had failed and before the POST for c2
KilledRunBlob ==
    LET records == ContractRecords(aggregate_usage_data(Concat(UsageFiles(2024, 11)), <<>>),
                                   <<>>, 2024, 11)
    IN mark_contract_month_error(EmptyDict, SN, ET, PID, records[1][1], 2024, 11,
                                 <<"E_net">>, "NETWORK_ERROR", "E_net",
                                 [request |-> records[1][2]], 0, StartNow)

\* the worker on that blob, with one MAX_RETRIES for all its cycles
InitFixed ==
    /\ state = KilledRunBlob
    /\ usage_data_state = EmptyDict
    /\ faults = {}
    /\ \E n \in MaxRetriesChoices : retry_limits = {n}
    /\ env_dimensions = <<>> /\ in_records = <<>> /\ out_aggregated = <<>>
    /\ pc = "idle"
    /\ store_failures = 0
    /\ ops = NoOp /\ writers = NoWriters
    /\ client = Call(FALSE, FALSE, FALSE, 0)
    /\ now = StartNow /\ ticks = 0 /\ crashes = 0
    /\ IdleLocals
    /\ accepted = EmptyDict /\ recAccepted = EmptyDict /\ lateSub = {} /\ lateRec = {}
    /\ warned = {}
    /\ monthRuns = EmptyDict
    /\ failLog = Logged(EmptyDict, "c1", <<2024, 11>>, "E_net")

SpecFixed == InitFixed /\ [][Next]_vars

\* the same worker, which does not stop for ever inside process_month: every
\* call it makes returns or raises, and time.sleep ends
ProcessMonthPcs ==
    {"retry_fetch", "retry_loop", "retry_handle", "retry_remove", "retry_mark",
     "discover", "send_loop", "send_handle", "send_remove", "send_mark"}

ProcessMonthStep ==
    /\ pc \in ProcessMonthPcs
    /\ pc' \in ProcessMonthPcs \cup {"month_done"}

SpecFixedLive == InitFixed /\ [][Next]_vars /\ WF_pc(ProcessMonthStep)

\* one worker that may be killed between any two steps
NextCrash == Step(WholeOutcomes) \/ Crash

SpecCrash == Init /\ [][NextCrash]_vars

\* ------------------------------------------------------------------------
\* Custom dimensions in the environment, and aggregation on its own
\* ------------------------------------------------------------------------
Dim(name) == <<"dim", name>>

Lit(n) == <<"num", n>>

Formula(l, op, r) == [op |-> op, l |-> l, r |-> r]

\* DIMENSION_x1 and DIMENSION_x2 as the runs may find them set
DimensionConfigs ==
    {<<>>,
     << <<"x1", Formula(Dim("d1"), "/", Lit(2))>>, <<"x2", Formula(Dim("d1"), "/", Lit(0))>> >>,
     << <<"x1", Formula(Dim("d1"), "+", Dim("d2"))>>, <<"x2", Formula(Dim("d2"), "-", Dim("d1"))>> >>,
     << <<"x2", Formula(Dim("d1"), "/", Lit(0))>> >>}

\* values of usage records, in tenths
ValueChoices == {15, -15}

\* the usage records a file may hold; "" is a missing field
RecordChoices ==
    {UsageRec(c, d, v) : c \in Contracts \cup {""}, d \in Dimensions \cup {""}, v \in ValueChoices}

RecordLists == UNION {[1..n -> RecordChoices] : n \in 0..MaxRecords}

\* the worker with DIMENSION_ variables set
InitDims ==
    /\ state = EmptyDict
    /\ usage_data_state = EmptyDict
    /\ env_dimensions \in DimensionConfigs \ {<<>>}
    /\ PlainEnvironment
    /\ in_records = <<>> /\ out_aggregated = <<>>
    /\ pc = "idle"
    /\ InitWorker

SpecDims == InitDims /\ [][Next]_vars

\* aggregate_usage_data on its own, over every list of records and every
\* setting of the DIMENSION_ variables
InitAggregate ==
    /\ state = EmptyDict
    /\ usage_data_state = EmptyDict
    /\ env_dimensions \in DimensionConfigs
    /\ PlainEnvironment
    /\ in_records \in RecordLists
    /\ out_aggregated = <<>>
    /\ pc = "aggregate"
    /\ InitWorker

Aggregate ==
    /\ pc = "aggregate"
    /\ out_aggregated' = aggregate_usage_data(in_records, env_dimensions)
    /\ pc' = "aggregated"
    /\ UNCHANGED <<store, now, ticks, crashes, usage_data_state, env_dimensions, in_records,
                   ops, writers, client, faults, retry_limits, config, processed_count, cur, retryLocals,
                   sendLocals, resp, retry_success,
                   all_success, result, ledger, monthRuns, runLocals, failLog>>

NextAggregate == Aggregate

SpecAggregate == InitAggregate /\ [][NextAggregate]_vars

\* ------------------------------------------------------------------------
\* ClazarClient.send_metering_data on its own
\* ------------------------------------------------------------------------
\* what one requests.post may give: 200 with and without "results", 500,
\* 429, 400, requests.Timeout, requests.ConnectionError, another
\* requests.RequestException, and any other exception
PostOutcomes ==
    {"200_results", "200_no_results", "500", "429", "400", "timeout", "connection",
     "request_exception", "exception"}

\* the outcomes after which the loop goes on when attempts are left
NetworkFailures == {"500", "429", "timeout", "connection", "request_exception", "exception"}

InitClient ==
    /\ state = EmptyDict
    /\ usage_data_state = EmptyDict
    /\ env_dimensions = <<>> /\ in_records = <<>> /\ out_aggregated = <<>>
    /\ PlainEnvironment
    /\ pc = "client_call"
    /\ store_failures = 0
    /\ ops = NoOp /\ writers = NoWriters
    /\ now = StartNow /\ ticks = 0 /\ crashes = 0
    /\ IdleLocals
    /\ accepted = EmptyDict /\ recAccepted = EmptyDict /\ lateSub = {} /\ lateRec = {}
    /\ warned = {}
    /\ monthRuns = EmptyDict /\ failLog = EmptyDict
    /\ client \in {Call(r, t, d, m) : r \in BOOLEAN, t \in BOOLEAN, d \in BOOLEAN,
                                        m \in 0..MaxClientRetries}

\* the variables a send_metering_data call leaves alone
ClientFrame ==
    UNCHANGED <<store, now, ticks, crashes, usage_data_state, env_dimensions, in_records,
                out_aggregated, ops, writers, faults, retry_limits, config, processed_count, cur, retryLocals, sendLocals, resp,
                retry_success, all_success, result, ledger, monthRuns, runLocals, failLog>>

\* send_metering_data up to the loop: no records, no access token, dry run
ClientCall ==
    /\ pc = "client_call"
    /\ IF ~client.has_records
       THEN client' = [client EXCEPT !.outcome = "returned"] /\ pc' = "client_done"
       ELSE IF ~client.access_token /\ ~client.dry_run
       THEN client' = [client EXCEPT !.outcome = "raised"] /\ pc' = "client_done"
       ELSE IF client.dry_run
       THEN client' = [client EXCEPT !.outcome = "returned"] /\ pc' = "client_done"
       ELSE client' = [client EXCEPT !.attempt = 0] /\ pc' = "client_attempt"
    /\ ClientFrame

\* "if attempt > 0", always true
NeedsWait_Always(n) == TRUE

\* "if attempt > 0" at the head of the loop body
NeedsWait(n) == n > 0

\* the head of the loop body: time.sleep(2 ** attempt) before a retry
ClientWait ==
    /\ pc = "client_attempt"
    /\ client' = IF NeedsWait(client.attempt)
                 THEN [client EXCEPT !.sleeps = client.sleeps + 1]
                 ELSE client
    /\ pc' = "client_post"
    /\ ClientFrame

\* requests.post and what the loop body does with its outcome; an attempt
\* goes on to the next one only below max_retries, so range(max_retries + 1)
\* always has the next value and the raise after the loop is never reached
ClientPost ==
    /\ pc = "client_post"
    /\ \E o \in PostOutcomes :
          LET posted == [client EXCEPT !.posts = client.posts + 1,
                                       !.log = Append(client.log, o)]
          IN IF o = "200_results"
             THEN client' = [posted EXCEPT !.outcome = "returned"] /\ pc' = "client_done"
             ELSE IF o \in NetworkFailures /\ client.attempt < client.max_retries
             THEN /\ client' = [posted EXCEPT !.attempt = client.attempt + 1]
                  /\ pc' = "client_attempt"
             ELSE client' = [posted EXCEPT !.outcome = "raised"] /\ pc' = "client_done"
    /\ ClientFrame

NextClient == ClientCall \/ ClientWait \/ ClientPost

SpecClient == InitClient /\ [][NextClient]_vars

\* ------------------------------------------------------------------------
\* The operations on the state blob on their own: any of them, called for
\* any service, contract and month, in any order
\* ------------------------------------------------------------------------
OpKinds == {"mark_processed", "mark_error", "remove_error", "update_last"}

OpMonths == {<<2024, 11>>, <<2024, 12>>}

\* the payload that the callers hand to mark_contract_month_error
OpPayload(contract_id, ym) ==
    [request |-> <<MeteringRecord(contract_id, "d1", Num(3), ym[1], ym[2])>>]

\* the blob that one call makes of the loaded blob
ApplyOp(st, kind, svc, contract_id, ym, retry_count, ts) ==
    IF kind = "mark_processed"
    THEN mark_contract_month_processed(st, svc[1], svc[2], svc[3], contract_id,
                                       ym[1], ym[2], ts)
    ELSE IF kind = "mark_error"
    THEN mark_contract_month_error(st, svc[1], svc[2], svc[3], contract_id, ym[1], ym[2],
                                   <<"E_net">>, "NETWORK_ERROR", "E_net",
                                   OpPayload(contract_id, ym), retry_count, ts)
    ELSE IF kind = "remove_error"
    THEN remove_error_contract(st, svc[1], svc[2], svc[3], contract_id, ym[1], ym[2], ts)
    ELSE update_last_processed_month(st, svc[1], svc[2], svc[3], ym[1], ym[2], ts)

InitOps ==
    /\ state \in {EmptyDict, OtherBlob}
    /\ usage_data_state = EmptyDict
    /\ PlainEnvironment
    /\ env_dimensions = <<>> /\ in_records = <<>> /\ out_aggregated = <<>>
    /\ pc = "ops"
    /\ InitWorker

\* the frame of the steps that are not steps of the worker
AloneFrame ==
    UNCHANGED <<now, ticks, crashes, usage_data_state, env_dimensions, in_records,
                out_aggregated, client, faults, retry_limits, pc, config, processed_count,
                cur, retryLocals, sendLocals, resp, retry_success, all_success, result,
                ledger, monthRuns, runLocals, failLog>>

StateOp ==
    /\ pc = "ops"
    /\ ops.count < MaxOps
    /\ \E kind \in OpKinds : \E svc \in Services : \E contract_id \in Contracts :
       \E ym \in OpMonths : \E retry_count \in 0..1 :
          /\ kind # "mark_error" => retry_count = 0
          /\ \E st \in Loads : Writes(st, ApplyOp(st, kind, svc, contract_id, ym,
                                                   retry_count, now))
          /\ ops' = [count |-> ops.count + 1, kind |-> kind, svc |-> svc,
                     contract_id |-> contract_id, ym |-> ym, before |-> state]
    /\ UNCHANGED writers
    /\ AloneFrame

NextOps == StateOp

SpecOps == InitOps /\ [][NextOps]_vars

\* ------------------------------------------------------------------------
\* Two processes that run cycles on the same state file.  A state operation
\* is "state = self.load_state()", changes to that dict, and
\* "self.save_state(state)": another process may load or save in between
\* ------------------------------------------------------------------------
WriterMonth == <<2024, 11>>

\* does remove_error_contract reach its save_state
RemoveSaves(st, svc, ym) ==
    LET service_key == get_service_key(svc[1], svc[2], svc[3])
    IN /\ service_key \in DOMAIN st
       /\ "error_contracts" \in DOMAIN st[service_key]
       /\ get_month_key(ym[1], ym[2]) \in DOMAIN st[service_key]["error_contracts"]

\* SavedBlob that loads the blob again at the save
SavedBlob_Reload(loaded, current, kind, contract_id, ts) ==
    IF kind = "remove_error" /\ ~RemoveSaves(current, SERVICE, WriterMonth) THEN current
    ELSE ApplyOp(current, kind, SERVICE, contract_id, WriterMonth, 0, ts)

\* what the state file holds after the operation that loaded the blob
\* "loaded" has run to its end, when the file held "current"
SavedBlob(loaded, current, kind, contract_id, ts) ==
    IF kind = "remove_error" /\ ~RemoveSaves(loaded, SERVICE, WriterMonth) THEN current
    ELSE ApplyOp(loaded, kind, SERVICE, contract_id, WriterMonth, 0, ts)

InitWriters ==
    /\ state \in {EmptyDict, OtherBlob}
    /\ usage_data_state = EmptyDict
    /\ PlainEnvironment
    /\ env_dimensions = <<>> /\ in_records = <<>> /\ out_aggregated = <<>>
    /\ pc = "writers"
    /\ InitWorker

\* "state = self.load_state()" of an operation of process w
WriterLoad(w) ==
    /\ pc = "writers"
    /\ writers[w].pc = "idle"
    /\ ops.count < MaxOps
    /\ \E kind \in OpKinds \ {"update_last"} : \E contract_id \in Contracts :
          writers' = [writers EXCEPT ![w] = [pc |-> "loaded", loaded |-> state,
                                             kind |-> kind, contract_id |-> contract_id]]
    /\ ops' = [ops EXCEPT !.count = ops.count + 1]
    /\ UNCHANGED store
    /\ AloneFrame

\* the rest of the operation of process w, to its "self.save_state(state)"
WriterSave(w) ==
    /\ pc = "writers"
    /\ writers[w].pc = "loaded"
    /\ state' = SavedBlob(writers[w].loaded, state, writers[w].kind,
                          writers[w].contract_id, now)
    /\ ops' = [count |-> ops.count, kind |-> writers[w].kind, svc |-> SERVICE,
               contract_id |-> writers[w].contract_id, ym |-> WriterMonth,
               before |-> state]
    /\ writers' = [writers EXCEPT ![w] = IdleWriter]
    /\ UNCHANGED store_failures
    /\ AloneFrame

NextWriters == \E w \in Writers : WriterLoad(w) \/ WriterSave(w)

SpecWriters == InitWriters /\ [][NextWriters]_vars

\* ------------------------------------------------------------------------
\* get_latest_month_with_complete_usage_data on its own, on the markers an
\* export may have left
\* ------------------------------------------------------------------------
MarkerYears == {2024, 2025}

MarkerDays(year, month) == {1, 15, LastDay(year, month)}

\* <<hour, minute, second>>
MarkerTimes == {<<0, 0, 0>>, <<23, 59, 59>>}

MarkerAt(year, month, day, time) ==
    Marker(SERVICE, IsoZ(year, month, day, time[1], time[2], time[3]))

InitMarker ==
    /\ state = EmptyDict
    /\ \E year \in MarkerYears : \E month \in 1..12 : \E day \in MarkerDays(year, month) :
       \E time \in MarkerTimes :
          usage_data_state = MarkerAt(year, month, day, time)
    /\ PlainEnvironment
    /\ env_dimensions = <<>> /\ in_records = <<>> /\ out_aggregated = <<>>
    /\ pc = "marker"
    /\ InitWorker

ReadMarker ==
    /\ pc = "marker"
    /\ out_aggregated' = get_latest_month_with_complete_usage_data(usage_data_state,
                                                                   SN, ET, PID)
    /\ pc' = "marker_read"
    /\ UNCHANGED <<store, now, ticks, crashes, usage_data_state, env_dimensions, in_records,
                   ops, writers, client, faults, retry_limits, config, processed_count, cur,
                   retryLocals, sendLocals, resp, retry_success, all_success, result,
                   ledger, monthRuns, runLocals, failLog>>

NextMarker == ReadMarker

SpecMarker == InitMarker /\ [][NextMarker]_vars

\* ------------------------------------------------------------------------
\* Properties
\* ------------------------------------------------------------------------
\* a POST is made in this step, in either phase
SendCallStep == pc = "send_loop" /\ pc' = "send_handle"

RetryCallStep == pc = "retry_loop" /\ pc' = "retry_handle"

\* C1: with one worker, no kill and every POST answered as a whole, no
\* (contract, month) has more than one accepted submission, and no POST is
\* made for a (contract, month) after one was accepted for it
C1_AcceptedAtMostOnce ==
    /\ \A k \in DOMAIN accepted : accepted[k] <= 1
    /\ lateSub = {}

\* c1 was accepted in an earlier run of 2024-11; a later run of the month has
\* gone through its phases, retried c2 and had it accepted, and sent nothing new
C1_Witness ==
    /\ pc = "month_done" /\ cur = <<2024, 11>>
    /\ Get(monthRuns, cur) = 2
    /\ "c1" \in doneBefore
    /\ sent = {} /\ retried = {"c2"}
    /\ Get(accepted, <<"c1", cur>>) = 1
    /\ Get(accepted, <<"c2", cur>>) = 1

\* C2: when process_month runs again for a month, it makes no POST for a
\* contract that was in the month's success list when the run began
C2_NoCallForProcessed ==
    [][/\ SendCallStep => contract_records[cidx][1] \notin doneBefore
       /\ RetryCallStep => error_contracts[idx].contract_id \notin doneBefore]_vars

\* a second run of a month has returned, with a contract marked processed
\* before it began
C2_Witness ==
    /\ pc = "month_done"
    /\ ~dry_run
    /\ Get(monthRuns, cur) = 2
    /\ doneBefore # {}

\* C3: also when the worker is killed between two steps, no (contract, month)
\* ends up with two accepted submissions
C3_AcceptedAtMostOnceWithKills ==
    \A k \in DOMAIN accepted : accepted[k] < 2

\* C4: no (contract, dimension, month) record is accepted twice, and no
\* record is sent again after the API accepted it
C4_RecordAtMostOnce ==
    /\ \A k \in DOMAIN recAccepted : recAccepted[k] <= 1
    /\ lateRec = {}

\* position of a month on the calendar, counted in months
MonthIndex(ym) == 12 * ym[1] + (ym[2] - 1)

Last(st) == get_last_processed_month(st, SN, ET, PID)

\* C5: lastProcessedMonth changes only when process_month has returned
\* success for the month it is set to, and a present value changes to the
\* next calendar month, never backwards
C5_LastAdvancesByOne ==
    [][Last(state') # Last(state) =>
          /\ ~IsNone(Last(state'))
          /\ Last(state')[2][2] \in 1..12
          /\ pc = "month_done" /\ result
          /\ Last(state')[2] = cur
          /\ ~IsNone(Last(state)) =>
                MonthIndex(Last(state')[2]) = MonthIndex(Last(state)[2]) + 1]_vars

\* the stored month has gone from December 2024 to January 2025
C5_Witness == Last(state) = Some(<<2025, 1>>)

\* does the contract have an entry in the list of error entries
HasEntry(lst, contract_id) == \E i \in 1..Len(lst) : lst[i].contract_id = contract_id

\* C6: a contract that failed in the submission phase has an error entry
\* holding the payload sent, and the retry phase of the next run of the month
\* resubmits every entry whose retry-phase failures are fewer than the limit
C6_FailedIsRetried ==
    /\ pc = "month_done" =>
          \A i \in 1..Len(contract_records) :
             contract_records[i][1] \notin SuccessOf(state, cur) =>
                \E j \in 1..Len(ErrorsOf(state, cur)) :
                   /\ ErrorsOf(state, cur)[j].contract_id = contract_records[i][1]
                   /\ ErrorsOf(state, cur)[j].payload = [request |-> contract_records[i][2]]
    /\ pc = "discover" =>
          \A j \in 1..Len(ErrorsOf(state, cur)) :
             LET e == ErrorsOf(state, cur)[j]
             IN Len(failLog[<<e.contract_id, cur>>]) - 1 < max_retries =>
                   e.contract_id \in retried

\* C7: when the submission phase has returned, every contract of the
\* filtered set has been sent and is in the month's success list or has an
\* error entry for the month, whatever happened to the contracts before it
C7_EveryContractHandled ==
    pc = "month_done" =>
       \A i \in 1..Len(contract_records) :
          /\ contract_records[i][1] \in sent
          /\ \/ contract_records[i][1] \in SuccessOf(state, cur)
             \/ HasEntry(ErrorsOf(state, cur), contract_records[i][1])

\* the first contract of the phase failed for good and the second one was
\* submitted and marked processed after it
C7_Witness ==
    /\ pc = "month_done" /\ ~dry_run
    /\ Len(contract_records) = 2
    /\ HasEntry(ErrorsOf(state, cur), contract_records[1][1])
    /\ contract_records[2][1] \in SuccessOf(state, cur)
    /\ Get(accepted, <<contract_records[2][1], cur>>) = 1

\* every <<month_key, entry>> in the error_contracts of any service
AllErrorEntries(st) ==
    UNION {UNION {{<<sk, k, st[sk]["error_contracts"][k][i]>> :
                      i \in 1..Len(st[sk]["error_contracts"][k])} :
                  k \in DOMAIN SubDict(st[sk], "error_contracts")} :
           sk \in DOMAIN st}

\* C8: the retry phase fetches exactly the month's entries with
\* retry_count < max_retries, resubmits only such entries, the submission
\* phase posts for no contract whose entry has retry_count >= max_retries, and
\* no step of a run removes or changes such an entry
C8_ExhaustedLeftAlone ==
    [][/\ pc = "retry_fetch" =>
             LET due == SelectSeq(ErrorsOf(state, cur),
                                  LAMBDA e : e.retry_count < max_retries)
             IN IF pc' = "retry_loop" THEN error_contracts' = due ELSE due = <<>>
       /\ RetryCallStep =>
             \E j \in 1..Len(ErrorsOf(state, cur)) :
                /\ ErrorsOf(state, cur)[j].contract_id = error_contracts[idx].contract_id
                /\ ErrorsOf(state, cur)[j].retry_count < max_retries
       /\ SendCallStep =>
             \A j \in 1..Len(ErrorsOf(state, cur)) :
                ErrorsOf(state, cur)[j].contract_id = contract_records[cidx][1] =>
                   ErrorsOf(state, cur)[j].retry_count < max_retries
       /\ pc # "idle" =>
             \A x \in AllErrorEntries(state) :
                x[3].retry_count >= max_retries => x \in AllErrorEntries(state')]_vars

\* a later run has finished its retry phase without touching an entry that
\* an earlier retry phase had failed on until the limit was reached
C8_Witness ==
    /\ pc = "discover" /\ ~dry_run
    /\ retried = {}
    /\ \E j \in 1..Len(ErrorsOf(state, cur)) :
          /\ ErrorsOf(state, cur)[j].retry_count >= max_retries
          /\ Len(ErrorsOf(state, cur)[j].errors) = 2

\* C9: the errors of an error entry are the messages of all failures
\* recorded for it since it was created, in the order of the calls
C9_ErrorsAccumulate ==
    \A x \in AllErrorEntries(state) :
       x[1] = get_service_key(SN, ET, PID) =>
          x[3].errors = failLog[<<x[3].contract_id, ParseMonthKey(x[2])>>]

\* an entry holds the messages of two failures, the older one first
C9_Witness ==
    \E x \in AllErrorEntries(state) :
       /\ x[1] = get_service_key(SN, ET, PID)
       /\ x[3].errors = <<"E_api", "E_net">>

\* is the contract in the success list or among the error entries that the
\* blob holds for the service under the key of that month
Recorded(st, svc, contract_id, ym) ==
    LET sk == <<svc[1], ":", svc[2], ":", svc[3]>>
    IN /\ sk \in DOMAIN st
       /\ \/ \E k \in DOMAIN SubDict(st[sk], "success_contracts") :
                /\ ParseMonthKey(k) = ym
                /\ \E i \in 1..Len(st[sk]["success_contracts"][k]) :
                      st[sk]["success_contracts"][k][i] = contract_id
          \/ \E x \in AllErrorEntries(st) :
                /\ x[1] = sk
                /\ ParseMonthKey(x[2]) = ym
                /\ x[3].contract_id = contract_id

QueryMonths == {<<2024, 10>>, <<2024, 11>>, <<2024, 12>>, <<2025, 1>>}

\* C10: is_contract_month_processed is true exactly for the contracts in the
\* month's success list or with an error entry for the month, under the
\* service key asked for
C10_IsProcessedIffRecorded ==
    \A svc \in Services : \A c \in Contracts : \A ym \in QueryMonths :
       is_contract_month_processed(state, svc[1], svc[2], svc[3], c, ym[1], ym[2])
          <=> Recorded(state, svc, c, ym)

\* c1 is processed by success and c2 by an entry whose retries are used up,
\* both for 2024-11, while c2 is recorded for 2024-12 under the other service
\* only and c1 under no other month
C10_Witness ==
    /\ pc = "next"
    /\ "c1" \in SuccessOf(state, <<2024, 11>>)
    /\ is_contract_month_processed(state, SN, ET, PID, "c1", 2024, 11)
    /\ \E j \in 1..Len(ErrorsOf(state, <<2024, 11>>)) :
          /\ ErrorsOf(state, <<2024, 11>>)[j].contract_id = "c2"
          /\ ErrorsOf(state, <<2024, 11>>)[j].retry_count >= max_retries
    /\ is_contract_month_processed(state, SN, ET, PID, "c2", 2024, 11)
    /\ is_contract_month_processed(state, OTHER_SERVICE[1], OTHER_SERVICE[2],
                                   OTHER_SERVICE[3], "c2", 2024, 12)
    /\ ~is_contract_month_processed(state, SN, ET, PID, "c2", 2024, 12)
    /\ ~is_contract_month_processed(state, SN, ET, PID, "c1", 2024, 12)

\* C11: a retry that succeeds takes the contract out of the month's error
\* entries and puts it into the month's success list: the step that ends a
\* successful retry leaves it so, and after the retry phase every contract
\* whose retry was accepted has no entry and is in the success list
C11_RetrySuccessMoves ==
    [][/\ pc = "retry_mark" =>
             /\ ~HasEntry(ErrorsOf(state', cur), error_contracts[idx].contract_id)
             /\ error_contracts[idx].contract_id \in SuccessOf(state', cur)
       /\ pc = "discover" =>
             \A c \in retried :
                Get(accepted, <<c, cur>>) > 0 =>
                   /\ ~HasEntry(ErrorsOf(state, cur), c)
                   /\ c \in SuccessOf(state, cur)]_vars

\* the retry phase of a run has resubmitted a contract, the API accepted it,
\* and the phase is over
C11_Witness ==
    /\ pc = "discover" /\ ~dry_run
    /\ \E c \in retried :
          /\ Get(accepted, <<c, cur>>) = 1
          /\ c \in SuccessOf(state, cur)
          /\ ~HasEntry(ErrorsOf(state, cur), c)
          /\ <<c, cur>> \notin DOMAIN failLog

\* the latest complete month the usage source reports for the worker's service
LatestComplete == get_latest_month_with_complete_usage_data(usage_data_state, SN, ET, PID)

\* C12: no month later than the latest complete month of the usage source is
\* processed or recorded as last_processed_month
C12_NothingBeyondLatestComplete ==
    ~IsNone(LatestComplete) =>
        /\ cur # NoMonth => MonthGE(LatestComplete[2], cur)
        /\ ~IsNone(Last(state)) => MonthGE(LatestComplete[2], Last(state)[2])

\* C13: with no last_processed_month stored, the month proposed for
\* processing is the configured start month
C13_FirstMonthIsStartMonth ==
    [][(pc = "next" /\ pc' = "retry_fetch" /\ IsNone(Last(state))) =>
           cur' = validate_start_month(START_MONTH)]_vars

\* C14: while the latest complete month is unavailable a cycle proposes no
\* month, makes no POST and leaves the state blob as it is
C14_NoMonthWithoutMarker ==
    [][IsNone(LatestComplete) =>
          /\ pc = "next" => pc' = "idle"
          /\ ~SendCallStep /\ ~RetryCallStep
          /\ state' = state]_vars

\* C15: a cycle that has processed a month ends without proposing another
C15_OneMonthPerCycle ==
    [][(pc = "next" /\ processed_count >= 1) => pc' = "idle"]_vars

\* the names of the configured custom dimensions
CustomNames(dims) == {dims[j][1] : j \in 1..Len(dims)}

\* the base dimensions of a contract in a list of records, as the list of
\* <<dimension, value>> that the formulas are evaluated on
BaseOf(records, contract_id) ==
    LET contracts == GroupByContract(AsNumbers(AggregateLoop(records, <<>>)), <<>>)
    IN IF ItemIndex(contracts, contract_id) = 0 THEN <<>>
       ELSE contracts[ItemIndex(contracts, contract_id)][2]

\* a formula fails for a contract: its evaluation raises or its result is
\* negative
FormulaFails(formula, base_dimensions) ==
    \/ EvalRaises(formula, base_dimensions)
    \/ evaluate_dimension_formula(formula, base_dimensions)[1] < 0

\* the custom dimensions an aggregation result holds for a contract
Emitted(items, dims, contract_id) ==
    {n \in CustomNames(dims) : ItemIndex(items, <<contract_id, n>>) # 0}

\* C16: in the result of an aggregation with custom dimensions configured, a
\* contract for which a formula fails has no custom dimension at all, and a
\* contract for which every formula succeeds has all of them
C16_CustomDimsAllOrNothing ==
    (pc = "aggregated" /\ Len(env_dimensions) # 0) =>
       \A c \in Contracts :
          Len(BaseOf(in_records, c)) # 0 =>
             IF \E j \in 1..Len(env_dimensions) :
                   FormulaFails(env_dimensions[j][2], BaseOf(in_records, c))
             THEN Emitted(out_aggregated, env_dimensions, c) = {}
             ELSE Emitted(out_aggregated, env_dimensions, c) = CustomNames(env_dimensions)

\* no contract of the month's usage gets a custom dimension out of the
\* aggregation, although there is usage and custom dimensions are configured
NoValidOutput(ym) ==
    LET records == Concat(UsageFiles(ym[1], ym[2]))
    IN /\ Len(env_dimensions) # 0
       /\ Len(AggregateLoop(records, <<>>)) # 0
       /\ \A c \in Contracts :
             Emitted(aggregate_usage_data(records, env_dimensions), env_dimensions, c) = {}

\* C17: when custom dimensions are configured and the month's usage yields
\* no custom dimension for any contract, process_month returns False from
\* the aggregation, no contract is submitted or marked processed and
\* last_processed_month stays
C17_NoOutputFailsMonth ==
    [][(cur # NoMonth /\ NoValidOutput(cur)) =>
          /\ pc = "discover" => (pc' = "month_done" /\ ~result')
          /\ pc # "send_loop"
          /\ SuccessOf(state', cur) = SuccessOf(state, cur)
          /\ Last(state') = Last(state)]_vars

RECURSIVE SumFor(_, _, _)
\* the sum of int(value) over the records of a contract and a dimension
SumFor(records, contract_id, dimension) ==
    IF Len(records) = 0 THEN 0
    ELSE (IF /\ Head(records).externalPayerId = contract_id
             /\ Head(records).dimension = dimension
          THEN IntOf(Head(records).value) ELSE 0)
         + SumFor(Tail(records), contract_id, dimension)

InFlight(c, ym) ==
    /\ cur = ym
    /\ \/ pc \in {"send_handle", "send_remove", "send_mark"} /\ contract_records[cidx][1] = c
       \/ pc \in {"retry_handle", "retry_remove", "retry_mark"}
             /\ error_contracts[idx].contract_id = c

\* C19: a response is handled as a failure exactly when one of its results
\* carries a non-empty error list, in both phases and in the client's
\* classification; a result with another status than success and no errors
\* is a warning, and a contract whose response had only that is marked
\* processed
C19_ErrorIffErrorList ==
    [][/\ (pc = "send_handle" /\ resp # "net") =>
             (pc' # "send_remove" <=>
                 \E i \in 1..Len(Results(resp)) : Results(resp)[i].errors # <<>>)
       /\ (pc = "retry_handle" /\ resp # "net") =>
             (pc' # "retry_remove" <=>
                 \E i \in 1..Len(Results(resp)) : Results(resp)[i].errors # <<>>)
       /\ (pc \in {"send_handle", "retry_handle"} /\ resp # "net") =>
             /\ check_response_for_errors(Results(resp)).has_errors <=>
                   \E i \in 1..Len(Results(resp)) : Results(resp)[i].errors # <<>>
             /\ \A i \in 1..Len(Results(resp)) :
                   (Results(resp)[i].errors = <<>> /\ Results(resp)[i].status # "success")
                      <=> \E j \in 1..Len(check_response_for_errors(Results(resp)).warnings) :
                             check_response_for_errors(Results(resp)).warnings[j] = Results(resp)[i]
       /\ \A x \in warned : InFlight(x[1], x[2]) \/ x[1] \in SuccessOf(state, x[2])]_vars

\* the POST of a contract was answered with a warning and no error, and the
\* contract is in the month's success list with nothing recorded against it
C19_Witness ==
    /\ pc = "month_done"
    /\ \E x \in warned :
          /\ x[2] = cur
          /\ x[1] \in SuccessOf(state, cur)
          /\ ~HasEntry(ErrorsOf(state, cur), x[1])
          /\ Get(accepted, x) = 1

\* C20: a send_metering_data call makes at most max_retries + 1 POSTs, a 200
\* response with results ends it at once with a return, it has slept once
\* before every POST but the first, and after max_retries + 1 POSTs that all
\* failed at the network level it has raised
C20_BoundedAttempts ==
    pc \in {"client_call", "client_attempt", "client_post", "client_done"} =>
       /\ client.posts <= client.max_retries + 1
       /\ client.posts = Len(client.log)
       /\ \A i \in 1..Len(client.log) :
             client.log[i] = "200_results" =>
                i = Len(client.log) /\ pc = "client_done" /\ client.outcome = "returned"
       /\ pc \in {"client_post", "client_done"} =>
             client.sleeps = (IF client.posts = 0 THEN 0 ELSE client.posts - 1)
                             + (IF pc = "client_post" /\ client.posts > 0 THEN 1 ELSE 0)
       /\ (/\ Len(client.log) = client.max_retries + 1
           /\ \A i \in 1..Len(client.log) : client.log[i] \in NetworkFailures) =>
             (pc = "client_done" /\ client.outcome = "raised")
       /\ (pc = "client_done" /\ client.outcome = "returned" /\ client.posts > 0) =>
             client.log[Len(client.log)] = "200_results"

\* with max_retries = 2 a timeout and a 500 were followed by a 200 with
\* results: three POSTs, two sleeps, and the call returned
C20_Witness ==
    /\ pc = "client_done"
    /\ client.max_retries = 2
    /\ client.log = <<"timeout", "500", "200_results">>
    /\ client.posts = 3 /\ client.sleeps = 2
    /\ client.outcome = "returned"

\* C21: a POST of the submission phase that is answered with status 400 is
\* the last POST of that payload in the phase, whatever max_retries is: the
\* contract is given up with an error entry and the phase goes on to the next
\* contract
C21_ClientErrorNotRetried ==
    [][(pc = "send_handle" /\ resp = "http_400") =>
          /\ ~(pc' = "send_loop" /\ cidx' = cidx)
          /\ HasEntry(ErrorsOf(state', cur), contract_records[cidx][1])]_vars

SaveFailedStep ==
    /\ state' = state
    /\ \/ pc = "send_mark" /\ contract_records[cidx][1] \notin SuccessOf(state, cur)
       \/ pc = "retry_mark" /\ error_contracts[idx].contract_id \notin SuccessOf(state, cur)
       \/ pc = "month_done" /\ result /\ Last(state) # Some(cur)

\* C23: a save of the state blob that fails ends the run with a failure: the
\* worker posts nothing more and does not go on to another contract or month
C23_SaveFailureIsFatal ==
    [][SaveFailedStep => (pc' = "idle" /\ exit_status' = "false")]_vars

\* the step is the remove_error_contract that follows an accepted submission
\* of the contract for the month
RemovesEntry(svc, c, m) ==
    /\ svc = SERVICE /\ m = cur
    /\ \/ pc = "retry_remove" /\ c = error_contracts[idx].contract_id
       \/ pc = "send_remove" /\ c = contract_records[cidx][1]

\* C24: a load of the state blob that fails never makes the run overwrite
\* what was saved: in every step each service stored stays stored, each
\* contract recorded for a month (success list or error entry, of this
\* service or another) stays recorded unless its error entry is removed after
\* an accepted submission, and a last_processed_month that is present stays
\* present
C24_LoadFailureKeepsSavedState ==
    [][/\ DOMAIN state \subseteq DOMAIN state'
       /\ \A svc \in {SERVICE, OTHER_SERVICE} : \A c \in Contracts : \A m \in QueryMonths :
              (Recorded(state, svc, c, m) /\ ~RemovesEntry(svc, c, m))
                 => Recorded(state', svc, c, m)
       /\ ~IsNone(Last(state)) => ~IsNone(Last(state'))]_vars

\* a step that makes an HTTP request to api.clazar.io: the POST to
\* /authenticate/ or a POST of metering records
HttpRequestStep ==
    \/ pc = "auth" /\ pc' # "auth"
    \/ SendCallStep
    \/ RetryCallStep

\* in a dry run a month ends with success and with every contract that was
\* submitted or retried in the success list of the month
DryRunMonthTracked ==
    (pc = "month_done" /\ dry_run) =>
        /\ result
        /\ \A c \in sent \cup retried : c \in SuccessOf(state, cur)

\* C25: while DRY_RUN is set no step makes an HTTP request to the billing
\* API and the billing API accepts nothing, and every month of a dry run ends
\* with success and with each contract that was submitted or retried marked
\* processed for the month
C25_DryRunSendsNothing ==
    [][/\ dry_run => (~HttpRequestStep /\ accepted' = accepted)
       /\ DryRunMonthTracked]_vars

\* the step on which process_month returns
ProcessMonthReturns == pc # "month_done" /\ pc' = "month_done"

\* C26: process_month returns True exactly when every error entry that the
\* retry phase resubmitted and every contract that the submission phase
\* submitted ended in the success list of the month; a return from before the
\* submission phase (no files, no records, nothing left after the filter)
\* posts nothing and returns retry_success
C26_ResultIsRetryAndSend ==
    [][ProcessMonthReturns =>
          /\ result' = /\ \A c \in retried' : c \in SuccessOf(state', cur')
                       /\ \A c \in sent' : c \in SuccessOf(state', cur')
          /\ retry_success' = \A c \in retried' : c \in SuccessOf(state', cur')
          /\ pc = "discover" =>
                /\ sent' = {} /\ accepted' = accepted
                /\ result' = retry_success]_vars

\* the retry of an entry failed and the contract submitted after it was
\* accepted: the month failed
C26_Witness ==
    /\ pc = "month_done" /\ ~result
    /\ ~retry_success /\ retried # {}
    /\ sent # {} /\ \A c \in sent : c \in SuccessOf(state, cur)

\* the aggregated usage of a month, as process_month hands it to the filter
AggregatedOf(ym) == aggregate_usage_data(Concat(UsageFiles(ym[1], ym[2])), env_dimensions)

\* what the filter makes of the aggregated usage of a month on the stored blob
FilteredOf(ym) ==
    filter_success_contracts(AggregatedOf(ym), state, SN, ET, PID, ym[1], ym[2])

\* C27: on every blob the run stores, the filter returns the aggregated
\* entries of the contracts that are neither in the success list nor among the
\* error entries of the month, in their order and with their quantities, and
\* drops every other entry
C27_FilterKeepsUnprocessed ==
    \A ym \in QueryMonths :
       FilteredOf(ym) = SelectSeq(AggregatedOf(ym),
                                  LAMBDA item : ~Recorded(state, SERVICE, item[1][1], ym))

\* the entries of a contract with an error entry are dropped and those of an
\* unprocessed contract are kept
C27_Witness ==
    \E ym \in QueryMonths :
       /\ Len(FilteredOf(ym)) > 0
       /\ \E i \in 1..Len(AggregatedOf(ym)) :
             /\ HasEntry(ErrorsOf(state, ym), AggregatedOf(ym)[i][1][1])
             /\ \A j \in 1..Len(FilteredOf(ym)) :
                   FilteredOf(ym)[j][1][1] # AggregatedOf(ym)[i][1][1]

\* the error entries that a blob holds for a contract and a month of the
\* worker's service
EntriesOf(st, contract_id, ym) ==
    {ErrorsOf(st, ym)[i] : i \in {j \in 1..Len(ErrorsOf(st, ym)) :
                                     ErrorsOf(st, ym)[j].contract_id = contract_id}}

\* an entry that the step creates has retry_count 0
NewEntryStartsAtZero ==
    \A c \in Contracts : \A ym \in QueryMonths :
       EntriesOf(state, c, ym) = {} =>
          \A new \in EntriesOf(state', c, ym) : new.retry_count = 0

\* an entry that the step updates keeps its retry_count or has it raised by one
ExistingEntryCountsUp ==
    \A c \in Contracts : \A ym \in QueryMonths :
       \A old \in EntriesOf(state, c, ym) : \A new \in EntriesOf(state', c, ym) :
          /\ new.retry_count \in {old.retry_count, old.retry_count + 1}
          /\ new.errors # old.errors => new.retry_count = old.retry_count + 1

\* C28: an error entry is created with retry_count 0, and each later failure
\* recorded in it raises its retry_count by exactly one; the count is never
\* lowered
C28_RetryCountStartsAtZero ==
    [][NewEntryStartsAtZero /\ ExistingEntryCountsUp]_vars

\* the POSTs that the retry phase has made so far for an entry: one for each
\* failure logged after the one that created the entry, and the one whose
\* response is being handled
Resubmissions(k) ==
    (Len(failLog[k]) - 1)
    + (IF pc = "retry_handle" /\ k = <<error_contracts[idx].contract_id, cur>> THEN 1 ELSE 0)

\* C29: with one MAX_RETRIES for all cycles, every error entry of the service
\* has retry_count <= MAX_RETRIES in every state, and the retry phase has
\* POSTed the payload of an entry at most MAX_RETRIES times
C29_RetriesBounded ==
    \A limit \in retry_limits :
       /\ \A x \in AllErrorEntries(state) :
             x[1] = get_service_key(SN, ET, PID) => x[3].retry_count <= limit
       /\ \A k \in DOMAIN failLog : Resubmissions(k) <= limit

\* an entry that was resubmitted MAX_RETRIES = 2 times and failed each time
C29_Witness ==
    /\ retry_limits = {2}
    /\ \E k \in DOMAIN failLog : Resubmissions(k) = 2
    /\ \E x \in AllErrorEntries(state) :
          x[1] = get_service_key(SN, ET, PID) /\ x[3].retry_count = 2 /\ Len(x[3].errors) = 3

\* the records whose count of acceptances the step raises
NewlyAccepted ==
    {k \in DOMAIN recAccepted' : Get(recAccepted, k) # recAccepted'[k]}

\* C30: the records that the API accepts from a POST of the retry phase are
\* the records of the payload stored in the entry that is retried, and a step
\* that keeps an error entry keeps its payload
C30_RetrySendsStoredPayload ==
    [][/\ (RetryCallStep /\ resp' \in {"ok", "warn"}) =>
             \E x \in EntriesOf(state, error_contracts[idx].contract_id, cur) :
                NewlyAccepted = {RecKey(r, cur) : r \in SeqRange(x.payload.request)}
       /\ \A c \in Contracts : \A ym \in QueryMonths :
             \A old \in EntriesOf(state, c, ym) : \A new \in EntriesOf(state', c, ym) :
                new.payload = old.payload]_vars

\* the second retry of an entry with a payload of two records was accepted,
\* after a first retry that failed and stored the payload back
C30_Witness ==
    /\ pc = "retry_handle" /\ resp = "ok" /\ current_retry = 2
    /\ Len(RetryPayload(error_contracts[idx]).request) = 2
    /\ \E x \in EntriesOf(state, error_contracts[idx].contract_id, cur) :
          /\ Len(x.errors) = 2
          /\ \A r \in SeqRange(x.payload.request) : Get(recAccepted, RecKey(r, cur)) = 1

\* the metering records of the items that the filter leaves for a contract
FilteredRecordsOf(contract_id, ym) ==
    LET items == SelectSeq(FilteredOf(ym), LAMBDA item : item[1][1] = contract_id)
    IN [i \in 1..Len(items) |->
           MeteringRecord(items[i][1][1], items[i][1][2], items[i][2], ym[1], ym[2])]

\* how often x occurs in a list
CountIn(lst, x) == Cardinality({i \in 1..Len(lst) : lst[i] = x})

\* the success list that the blob holds for the worker's service and a month
SuccessListOf(st, ym) ==
    LET service_key == get_service_key(SN, ET, PID)
        month_key == get_month_key(ym[1], ym[2])
    IN IF SuccessOf(st, ym) = {} THEN <<>>
       ELSE st[service_key]["success_contracts"][month_key]

\* C31: each POST of the submission phase carries all the records that the
\* filter left for one contract and only records of that contract, no two
\* payloads of a month are for the same contract, and the step that marks the
\* contract after an accepted POST puts it in the success list once
C31_OnePayloadPerContract ==
    [][/\ SendCallStep =>
             /\ contract_records[cidx][2] = FilteredRecordsOf(contract_records[cidx][1], cur)
             /\ \A i \in 1..Len(contract_records[cidx][2]) :
                   contract_records[cidx][2][i].contract_id = contract_records[cidx][1]
             /\ \A i \in 1..Len(contract_records) :
                   contract_records[i][1] = contract_records[cidx][1] => i = cidx
       /\ pc = "send_mark" =>
             CountIn(SuccessListOf(state', cur), contract_records[cidx][1]) = 1]_vars

\* the two records of c1 were accepted in one POST and c1 is marked processed
C31_Witness ==
    /\ pc = "send_loop" /\ cidx = 2 /\ ~dry_run
    /\ Len(contract_records[1][2]) = 2
    /\ \A i \in 1..2 : Get(recAccepted, RecKey(contract_records[1][2][i], cur)) = 1
    /\ Get(accepted, <<contract_records[1][1], cur>>) = 1
    /\ CountIn(SuccessListOf(state, cur), contract_records[1][1]) = 1

\* the list that a blob holds under a service key, a section and a month key
ListAt(st, sk, section, k) ==
    IF sk \in DOMAIN st /\ k \in DOMAIN SubDict(st[sk], section) THEN st[sk][section][k]
    ELSE <<>>

\* no contract twice in the list of contract ids
NoDuplicate(lst) == \A i, j \in 1..Len(lst) : lst[i] = lst[j] => i = j

\* no two entries of the list for one contract
OneEntryPerContract(lst) ==
    \A i, j \in 1..Len(lst) : lst[i].contract_id = lst[j].contract_id => i = j

\* C32: after any calls of mark_contract_month_processed,
\* mark_contract_month_error and remove_error_contract, every success list of
\* the blob holds each contract at most once and every list of error entries
\* holds at most one entry for a contract
C32_ListsHoldContractOnce ==
    \A sk \in DOMAIN state :
       /\ \A k \in DOMAIN SubDict(state[sk], "success_contracts") :
             NoDuplicate(ListAt(state, sk, "success_contracts", k))
       /\ \A k \in DOMAIN SubDict(state[sk], "error_contracts") :
             OneEntryPerContract(ListAt(state, sk, "error_contracts", k))

\* mark_contract_month_processed was called for a contract that was in the
\* success list already, where an entry that two failures were recorded in
\* stands as well
C32_Witness ==
    LET sk == get_service_key(ops.svc[1], ops.svc[2], ops.svc[3])
        k == get_month_key(ops.ym[1], ops.ym[2])
    IN /\ ops.kind = "mark_processed"
       /\ CountIn(ListAt(ops.before, sk, "success_contracts", k), ops.contract_id) = 1
       /\ CountIn(ListAt(state, sk, "success_contracts", k), ops.contract_id) = 1
       /\ \E x \in AllErrorEntries(state) : Len(x[3].errors) = 2

\* process w ends a state operation in this step
WriterSaveStep(w) == writers[w].pc = "loaded" /\ writers'[w].pc = "idle"

\* the step takes a contract out of what the blob records for the month
\* although it is not a remove_error_contract for that contract
LosesRecord ==
    \E c \in Contracts :
       /\ Recorded(state, SERVICE, c, WriterMonth)
       /\ ~Recorded(state', SERVICE, c, WriterMonth)
       /\ \A w \in Writers :
             WriterSaveStep(w) => ~(writers[w].kind = "remove_error" /\ writers[w].contract_id = c)

\* C33: a state operation saves the blob it loaded with its own change, and
\* neither locks nor compares with what the file holds at the save; a
\* contract's record is lost only by the save of a process that loaded the
\* blob before another process saved
C33_SaveIsBlindWholeBlob ==
    [][\A w \in Writers : WriterSaveStep(w) =>
          /\ writers[w].kind = "mark_processed" =>
                state' = mark_contract_month_processed(writers[w].loaded, SN, ET, PID,
                             writers[w].contract_id, WriterMonth[1], WriterMonth[2], now)
          /\ LosesRecord => writers[w].loaded # state]_vars

\* the mark_contract_month_processed of one process was saved and the save
\* of the other process, a mark_contract_month_processed for another
\* contract, took it out of the blob
C33_Witness ==
    /\ pc = "writers"
    /\ ops.kind = "mark_processed"
    /\ \E c \in Contracts \ {ops.contract_id} :
          /\ c \in SuccessOf(ops.before, WriterMonth)
          /\ ~Recorded(state, SERVICE, c, WriterMonth)

\* the month that is complete when the last successful export is stamped
\* with the day and time of the month: the month itself at its last second,
\* the month before at any earlier time
CompleteMonthAt(year, month, day, time) ==
    IF day = LastDay(year, month) /\ time = <<23, 59, 59>> THEN <<year, month>>
    ELSE PrevMonthOf(<<year, month>>)

\* C34: get_latest_month_with_complete_usage_data returns the month of the
\* marker only for a marker at the last second of that month, and the month
\* before it for a marker inside the month
C34_LatestCompleteIsElapsed ==
    pc = "marker_read" =>
       \A year \in MarkerYears : \A month \in 1..12 : \A day \in MarkerDays(year, month) :
          \A time \in MarkerTimes :
             usage_data_state = MarkerAt(year, month, day, time) =>
                out_aggregated = Some(CompleteMonthAt(year, month, day, time))

\* C35: with custom dimensions configured, every entry that aggregation
\* hands to the filter and every record that is POSTed for a contract is for
\* one of the configured custom dimension names
C35_OnlyCustomDimensionsSent ==
    [][(Len(env_dimensions) # 0 /\ SendCallStep) =>
          /\ \A i \in 1..Len(AggregatedOf(cur)) :
                AggregatedOf(cur)[i][1][2] \in CustomNames(env_dimensions)
          /\ \A i \in 1..Len(contract_records[cidx][2]) :
                contract_records[cidx][2][i].dimension \in CustomNames(env_dimensions)]_vars

\* the contracts that the files of a month hold usage for
ContractsWithUsage(ym) == {AggregatedOf(ym)[i][1][1] : i \in 1..Len(AggregatedOf(ym))}

\* process_pending_months records the month it has processed
AdvanceStep == pc = "month_done" /\ Last(state') # Last(state)

\* C36 as stated: last_processed_month is set to a month only when every
\* contract with usage in the month's files is in the month's success list
C36_AdvanceNeedsAllSuccess ==
    [][AdvanceStep =>
          \A c \in ContractsWithUsage(cur) : c \in SuccessOf(state', cur)]_vars

\* C36 amended: last_processed_month is set to a month only when every
\* contract with usage in the month's files is in the month's success list
\* or has an error entry with retry_count >= max_retries that this
\* process_month neither resubmitted nor submitted
C36_AdvanceNeedsAllSettled ==
    [][AdvanceStep =>
          \A c \in ContractsWithUsage(cur) :
             \/ c \in SuccessOf(state', cur)
             \/ /\ c \notin sent \cup retried
                /\ \E x \in EntriesOf(state', c, cur) : x.retry_count >= max_retries]_vars

\* 2024-11 is the last processed month while c1 has an error entry for it
C36_Witness ==
    /\ Last(state) = Some(<<2024, 11>>)
    /\ HasEntry(ErrorsOf(state, <<2024, 11>>), "c1")
    /\ "c2" \in SuccessOf(state, <<2024, 11>>)

\* C37: in every state of a single worker's cycles no contract is in the
\* success list of a month and has an error entry for the same month
C37_SuccessAndErrorDisjoint ==
    \A ym \in QueryMonths : \A c \in Contracts :
       ~(c \in SuccessOf(state, ym) /\ HasEntry(ErrorsOf(state, ym), c))

\* a contract whose error entry was resubmitted is in the success list and
\* has no entry any more, while the other contract of the month has one
C37_Witness ==
    \E c \in retried :
       /\ c \in SuccessOf(state, cur)
       /\ ~HasEntry(ErrorsOf(state, cur), c)
       /\ Len(ErrorsOf(state, cur)) > 0

\* the POST whose response is being handled is within the attempts that the
\* loop of its phase allows for the contract: attempt 0..max_retries in the
\* submission phase, retry retry_count + 1..max_retries in the retry phase
AttemptsWithinLimit ==
    /\ pc \in {"send_loop", "send_handle"} => attempt \in 0..max_retries
    /\ pc = "retry_handle" =>
          /\ current_retry > RetryCount(error_contracts[idx])
          /\ current_retry <= max_retries

\* when process_month has returned, every contract it submitted or retried is
\* in the success list of the month or has an error entry for it
ExitsWithOutcome ==
    pc = "month_done" =>
       \A c \in sent \cup retried :
          c \in SuccessOf(state, cur) \/ HasEntry(ErrorsOf(state, cur), c)

\* C38: every process_month that has begun returns, each contract it handled
\* having an outcome, and on its way the
\* submission phase POSTs at most max_retries + 1 times for a contract and
\* the retry phase at most max_retries - retry_count times for an entry
C38_ProcessMonthTerminates ==
    /\ []AttemptsWithinLimit
    /\ []ExitsWithOutcome
    /\ (pc = "retry_fetch") ~> (pc = "month_done")

\* a process_month has returned after the last allowed retry of an entry and
\* the last allowed attempt for a contract both failed
C38_Witness ==
    /\ pc = "month_done" /\ ~result /\ max_retries = 2
    /\ \E c \in retried : \E x \in EntriesOf(state, c, cur) :
          x.retry_count = 2 /\ Len(x.errors) = 3
    /\ \E c \in sent : \E x \in EntriesOf(state, c, cur) : x.retry_count = 2

\* str(n) of some integer n >= 0: digits only, at least one
IsNaturalString(s) ==
    /\ Len(s) > 0
    /\ \A i \in 1..Len(s) : \E d \in 0..9 : s[i] = Chr(d)

\* the records send_to_clazar builds of what aggregate_usage_data returned
BuiltRecords ==
    LET built == ContractRecords(out_aggregated, <<>>, 2024, 11)
    IN UNION {{built[i][2][k] : k \in 1..Len(built[i][2])} : i \in 1..Len(built)}

\* C39: every record built for submission of the usage records handed in,
\* whatever their values and the formulas set, has as its quantity the decimal
\* string of an integer that is not negative
C39_QuantityIsNaturalString ==
    pc = "aggregated" => \A record \in BuiltRecords : IsNaturalString(record.quantity)

\* the blob without the data of one service key
OtherServices(st, own) == [sk \in (DOMAIN st) \ {own} |-> st[sk]]

\* a section of one service key's data without the list of one month
OtherMonths(st, own, section, mk) ==
    IF own \in DOMAIN st
    THEN LET d == SubDict(st[own], section)
         IN [k \in (DOMAIN d) \ {mk} |-> d[k]]
    ELSE EmptyDict

\* C40: after each of the four state operations, called for a service key and
\* a month, the data of every other service key and the success and error
\* lists of every other month of that service key are as they were before it
C40_OpsTouchOneMonth ==
    ops.kind # "none" =>
       LET own == get_service_key(ops.svc[1], ops.svc[2], ops.svc[3])
           mk == get_month_key(ops.ym[1], ops.ym[2])
       IN /\ OtherServices(state, own) = OtherServices(ops.before, own)
          /\ \A section \in {"success_contracts", "error_contracts"} :
                OtherMonths(state, own, section, mk) = OtherMonths(ops.before, own, section, mk)

\* an operation has changed the blob while it held another service key's data
\* and a success list of another month of the operation's own service key
C40_Witness ==
    /\ ops.kind \in {"remove_error", "update_last"} /\ state # ops.before
    /\ LET own == get_service_key(ops.svc[1], ops.svc[2], ops.svc[3])
           mk == get_month_key(ops.ym[1], ops.ym[2])
       IN /\ OtherServices(state, own) # EmptyDict
          /\ OtherMonths(state, own, "success_contracts", mk) # EmptyDict

====
